---- MODULE Spec2Model ----
(***************************************************************************)
(* Conversation cache, rate limiter, model-fallback router and dispatch    *)
(* scheduler of smolbot, modelled as state machines.  The repository       *)
(* carries several revisions of the same classes side by side; where they  *)
(* differ in behaviour the revision is a state variable fixed by Init.     *)
(***************************************************************************)
EXTENDS Integers, Sequences, FiniteSets, TLC

(***************************************************************************)
(* Bounds of the model                                                     *)
(***************************************************************************)
MaxAppends == 25
MaxStoredAppends == 6
MaxClears == 1
MaxSaveFailures == 1
MaxTime == 360000
MaxLimit == 2
MaxJobs == 3
MaxQueueTicks == 3
MaxProviderChanges == 1
MaxMsgs == 3
\* inbound messages delivered to MessageHandler.handleMessage
MaxInbound == 2
\* addMessage calls and periodic syncs while saves are followed statement by statement
MaxFlushAppends == 3
MaxSyncs == 2
\* runs of the initializeCache that completes a cache which is not full
MaxCompletions == 2
\* windows of time during which callers keep calling waitForToken, after which
\* the limiter is left to drain
MaxCallWindows == 2

(***************************************************************************)
(* Program constants                                                       *)
(***************************************************************************)
DefaultMaxSize == 20
HydrateLimit == 100
WindowMs == 60000
MaxWaitMs == 300000
QueueLimit == 30
SerialDelayMs == 2000
DefaultDelayMs == 250
ChatMaxRetries == 3
VisionMaxRetries == 2
DefaultContextSize == 15
MentionContextSize == 20

Channels == {"c1", "c2"}
CacheSizes == {1, 2, DefaultMaxSize}
Callers == {"a", "b", "c"}
TimeSteps == {30000}
NoTimer == -1
Jobs == 1..MaxJobs
Priorities == {1, 5}
\* options.maxConcurrent: one job at a time, or two at a time
Budgets == {1, 2}
Tiers == <<"primary", "fallback", "instantFallback">>
\* createdAt of a message; equal timestamps happen
Timestamps == {1, 2}
\* contextSize: the argument of buildContext
ContextSizes == {1, 2, MentionContextSize}
\* a message that is in no cache: only the platform can supply it
RemoteId == MaxMsgs + 2
\* referencedMessage of a message: none (0), the first cached message, a remote one
Refs == {0, 1, RemoteId}

Min(a, b) == IF a < b THEN a ELSE b

\* The last n elements of s.
LastN(s, n) == SubSeq(s, Len(s) - n + 1, Len(s))

VARIABLES
    \* ---- ChannelCacheManager ----
    cver,           \* "memory" (no persistence) or "database" revision
    maxSize,        \* options.maxSize
    caches,         \* Map channelId -> messages (a function on the channels present)
    store,          \* rows of the persisted cache per channel (database revision)
    emitted,        \* events emitted by the last operation
    nextId,         \* per channel, the id of the next inbound message
    clears,         \* number of clearCache calls so far
    saveFailures,   \* number of failed saveChannelCache calls so far
    appended,       \* history: messages appended to the channel since it was empty
    \* ---- wall clock ----
    now,
    \* ---- RequestRateLimiter (groqApi) ----
    maxRequestsPerMinute,
    requestsThisMinute,
    minuteStartTime,
    requestQueue,       \* Seq of [caller, timestamp]
    processingQueue,
    drainTimer,         \* time at which the sleeping drain loop is due, or NoTimer
    req,                \* per caller: the state of its current waitForToken call
    win,                \* history of the current window: calls, immediate, drained
    \* ---- BotInteractionQueue ----
    qver,               \* "serial", "concurrent" or "limited" revision
    maxConcurrent,      \* options.maxConcurrent (the serial revision runs one job at a time)
    queue,              \* Seq of [job, timestamp, priority]
    processing,         \* number of jobs in flight (a boolean in the serial revision)
    loops,              \* suspended activations of processQueue: [pc, job, wake, avail]
    job,                \* per job: [status, priority, runs]
    ran,                \* history: jobs in the order their function was first invoked
    qlim,               \* the scheduler's RequestRateLimiter: [count, start]
    env,                \* process.env: [fallback, instant]
    \* ---- GroqHandler ----
    rver,               \* "limited", "threeTier", "envFlag" or "retry" revision
    maxRetries,         \* config.maxRetries
    health,             \* per tier, how the provider answers a call: "ok", "capacity", "error"
    changes,            \* number of times the provider changed its answer
    rpc,                \* position of generateResponse / executeWithFallback
    models,             \* the tiers this call of executeWithFallback iterates over
    ti,                 \* index into models
    attempt,            \* attempt counter of the retry revision
    calls,              \* history: attempts so far, [tier, kind, invoked]
    lastError,          \* [kind, at]; at = 0 while undefined
    thrown,             \* the error executeWithFallback threw
    delays,             \* history: number of backoff delays taken
    reply,              \* what generateResponse gave its caller
    tokensGranted,  \* tokens the limiter has granted to executeWithFallback
    \* ---- ContextBuilder ----
    bver,               \* "sorted" (ContextBuilder.ts), "nullable" (part_001) or "first" (part_002)
    ccache,             \* cache.messages of the channel: Seq of [id, ts, ref]
    cur,                \* currentMessage: [id, ts, ref], id = 0 for null
    contextSize,
    excludeCurrent,
    bpc,                \* position of buildContext: "idle", "format", "fetch", "done"
    recent,             \* recentMessages
    bi,                 \* index of the entry being formatted
    out,                \* contextMessages: Seq of [id, kind, quoted, current]
    fetches,            \* history: [id, ok, at]: message fetched, outcome, place of the entry
    \* ---- RateLimiter (utils), the token bucket ----
    lver,               \* which limiter is in use: "window" (groqApi) or "bucket" (utils)
    options,            \* [tokensPerInterval, intervalMs, maxTokens]
    tokens,
    lastRefill,
    bucketQueue,        \* requestQueue of the bucket: Seq of [caller, timestamp]
    bucketBusy,         \* processingQueue of the bucket
    bucketTimer,        \* time at which the sleeping loop of the bucket is due, or NoTimer
    breq,               \* per caller: the state of its current waitForToken call on the bucket
    \* ---- BotMentionHandler: one response job ----
    mver,               \* "timeout" (races a 30 s timer) or "plain" revision of handleMention
    msched,             \* the scheduler that runs the job: "serial", "concurrent" or "limited"
    mpc,                \* position of handleMention
    mrun,               \* the scheduler's current start of the job: "none", "main", "fallback", "instant"
    timer,              \* the 30 s timer of timeoutPromise: "none", pending as "armed" (no handler
                        \* yet), "raced" (in the race) or "spent" (the race is over), or "fired"
    gen,                \* generateResponse of the current run: "none", "waiting" (for its
                        \* rate-limit token), "calling" (the provider), "done"
    apology,            \* the apology the catch block is sending: "timeout" or "error"
    sent,               \* messages delivered to the user, in order
    failedSends,        \* message.reply calls that rejected
    mres,               \* result of the job: "none", "threw", "rateLimit", "completed", "failed", "exited"
    \* ---- MessageHandler ----
    hver,               \* "direct" (handleMessage only calls processMessage) or "guarded"
                        \* (handleMessage has its own duplicate guard and initializes the cache)
    processingMessages, \* ids of the messages being processed
    hpc,                \* per inbound message: "new", "load", "history", "adding", "images",
                        \* "fetch", "done"
    hmsg,               \* per inbound message: mentions the bot, and what its reference is
    history,            \* the channel's messages on the platform, oldest first
    hfetched,           \* per handler: the fetched historical messages still to be added
    enqueued,           \* ids of the messages a response job was enqueued for
    \* ---- saveChannelCache, statement by statement ----
    fcall,              \* per caller of saveChannelCache (0: the periodic sync, m: addMessage of
                        \* message m): "none", "ids" (BEGIN issued), "insert", "committed",
                        \* "rejected", "done" (the caller has completed)
    txn,                \* the open transaction: its caller, the rows at BEGIN, the position of
                        \* the loop over cache.messages, the contents the cache had meanwhile,
                        \* and whether it follows a flush without an append in between
    syncs,              \* number of periodic syncs started
    quiet,              \* no append since the start of the last committed flush
    flushed,            \* the last committed flush
    \* ---- MessageHandler.initializeCache, the revision that completes a cache ----
    ipc,                \* "idle", or "fetch" (the fetch of older messages is pending)
    completions         \* number of runs started

cacheVars == <<cver, maxSize, caches, store, emitted, nextId, clears, saveFailures, appended>>
limVars == <<maxRequestsPerMinute, requestsThisMinute, minuteStartTime,
             requestQueue, processingQueue, drainTimer, req, win>>
queueVars == <<qver, maxConcurrent, queue, processing, loops, job, ran, qlim, env>>
routerVars == <<rver, maxRetries, health, changes, rpc, models, ti, attempt, calls,
                lastError, thrown, delays, reply, tokensGranted>>
ctxVars == <<bver, ccache, cur, contextSize, excludeCurrent, bpc, recent, bi, out, fetches>>
bucketVars == <<lver, options, tokens, lastRefill, bucketQueue, bucketBusy, bucketTimer, breq>>
mentionVars == <<mver, msched, mpc, mrun, timer, gen, apology, sent, failedSends, mres>>
inboundVars == <<hver, processingMessages, hpc, hmsg, history, hfetched, enqueued>>
flushVars == <<fcall, txn, syncs, quiet, flushed>>
completeVars == <<ipc, completions>>
vars == <<cacheVars, now, limVars, queueVars, routerVars, ctxVars, bucketVars, mentionVars, inboundVars, flushVars,
          completeVars>>

(***************************************************************************)
(* ChannelCacheManager                                                     *)
(***************************************************************************)
CacheIdle ==
    /\ cver = "memory"
    /\ maxSize = DefaultMaxSize
    /\ caches = << >>
    /\ store = [ch \in Channels |-> << >>]
    /\ emitted = << >>
    /\ nextId = [ch \in Channels |-> 1]
    /\ clears = 0
    /\ saveFailures = 0
    /\ appended = [ch \in Channels |-> << >>]

CacheInit ==
    /\ cver \in {"memory", "database"}
    /\ maxSize \in CacheSizes
    /\ caches = << >>
    /\ store = [ch \in Channels |-> << >>]
    /\ emitted = << >>
    /\ nextId = [ch \in Channels |-> 1]
    /\ clears = 0
    /\ saveFailures = 0
    /\ appended = [ch \in Channels |-> << >>]

\* cache.messages after the size check of addMessage: shift() drops the head.
EvictNewest(msgs, n) == IF Len(msgs) > n THEN SubSeq(msgs, 1, Len(msgs) - 1) ELSE msgs
Evict(msgs, n) == IF Len(msgs) > n THEN Tail(msgs) ELSE msgs

\* The events addMessage emits for pushing m onto msgs.
AddEventsAtCapacity(ch, msgs, m, n) ==
    <<[type |-> "messageAdded", channel |-> ch, msg |-> m]>> \o
    (IF Len(Append(msgs, m)) >= n
        THEN <<[type |-> "messageRemoved", channel |-> ch, msg |-> Head(Append(msgs, m))]>>
        ELSE << >>)
AddEvents(ch, msgs, m, n) ==
    <<[type |-> "messageAdded", channel |-> ch, msg |-> m]>> \o
    (IF Len(Append(msgs, m)) > n
        THEN <<[type |-> "messageRemoved", channel |-> ch, msg |-> Head(Append(msgs, m))]>>
        ELSE << >>)

GetCache(ch) == IF ch \in DOMAIN caches THEN caches[ch] ELSE << >>

RECURSIVE SumOver(_, _)
SumOver(f, S) == IF S = {} THEN 0 ELSE LET x == CHOOSE y \in S : TRUE IN f[x] + SumOver(f, S \ {x})

\* The number of addMessage calls so far.
Appends == SumOver(nextId, Channels) - Cardinality(Channels)

\* SQLiteAdapter.getChannelCache: the channel's rows, newest first, at most 100.
RECURSIVE Reverse(_)
Reverse(s) == IF s = << >> THEN << >> ELSE Append(Reverse(Tail(s)), Head(s))
Hydrate(rows) == SubSeq(Reverse(rows), 1, Min(Len(rows), HydrateLimit))

\* addMessage that persists the channel before it enforces the size.
AddMessagePersistsFirst(ch, saved) ==
    /\ Appends < MaxAppends
    /\ ~saved => cver = "database" /\ saveFailures < MaxSaveFailures
    /\ saveFailures' = IF saved THEN saveFailures ELSE saveFailures + 1
    /\ LET m == nextId[ch]
           old == GetCache(ch)
           new == Evict(Append(old, m), maxSize)
       IN /\ caches' = [c \in DOMAIN caches \cup {ch} |-> IF c = ch THEN new ELSE caches[c]]
          /\ emitted' = AddEvents(ch, old, m, maxSize)
          /\ appended' = [appended EXCEPT ![ch] = Append(@, m)]
          /\ store' = IF cver = "database" /\ saved
                         THEN [store EXCEPT ![ch] = Append(old, m)]
                         ELSE store
    /\ nextId' = [nextId EXCEPT ![ch] = @ + 1]
    /\ UNCHANGED <<cver, maxSize, clears>>

\* addMessage(channelId, message); saved tells whether saveChannelCache succeeded.
AddMessage(ch, saved) ==
    /\ Appends < MaxAppends
    /\ ~saved => cver = "database" /\ saveFailures < MaxSaveFailures
    /\ saveFailures' = IF saved THEN saveFailures ELSE saveFailures + 1
    /\ LET m == nextId[ch]
           old == GetCache(ch)
           new == Evict(Append(old, m), maxSize)
       IN /\ caches' = [c \in DOMAIN caches \cup {ch} |-> IF c = ch THEN new ELSE caches[c]]
          /\ emitted' = AddEvents(ch, old, m, maxSize)
          /\ appended' = [appended EXCEPT ![ch] = Append(@, m)]
          /\ store' = IF cver = "database" /\ saved
                         THEN [store EXCEPT ![ch] = new]
                         ELSE store
    /\ nextId' = [nextId EXCEPT ![ch] = @ + 1]
    /\ UNCHANGED <<cver, maxSize, clears>>

\* clearCache(channelId)
ClearCache(ch) ==
    /\ ch \in DOMAIN caches
    /\ clears < MaxClears
    /\ clears' = clears + 1
    /\ caches' = [c \in DOMAIN caches \ {ch} |-> caches[c]]
    /\ emitted' = <<[type |-> "cacheCleared", channel |-> ch, msg |-> 0]>>
    /\ appended' = [appended EXCEPT ![ch] = << >>]
    /\ UNCHANGED <<cver, maxSize, store, nextId, saveFailures>>

\* The process starts again: the caches in memory are gone, the database is kept.
Restart ==
    /\ cver = "database"
    /\ caches # << >>
    /\ caches' = << >>
    /\ emitted' = << >>
    /\ UNCHANGED <<cver, maxSize, store, nextId, clears, saveFailures, appended>>

\* loadCache(channelId), called by initializeCache for a channel without a cache;
\* getChannelCache returns the channel's rows, or no rows when its query fails.
LoadCache(ch, ok) ==
    /\ cver = "database"
    /\ ch \notin DOMAIN caches
    /\ caches' = [c \in DOMAIN caches \cup {ch} |->
                     IF c = ch THEN (IF ok THEN Hydrate(store[ch]) ELSE << >>) ELSE caches[c]]
    /\ UNCHANGED <<cver, maxSize, store, emitted, nextId, clears, saveFailures, appended>>

(***************************************************************************)
(* RequestRateLimiter of groqApi                                           *)
(***************************************************************************)
IdleReq == [status |-> "idle", queued |-> FALSE, callAt |-> 0, winStart |-> 0, settleAt |-> 0]
NewWin == [calls |-> 0, immediate |-> 0, drained |-> 0]

LimiterIdle ==
    /\ maxRequestsPerMinute = 1
    /\ requestsThisMinute = 0
    /\ minuteStartTime = 0
    /\ requestQueue = << >>
    /\ processingQueue = FALSE
    /\ drainTimer = NoTimer
    /\ req = [c \in Callers |-> IdleReq]
    /\ win = NewWin

LimiterInit ==
    /\ maxRequestsPerMinute \in 1..MaxLimit
    /\ requestsThisMinute = 0
    /\ minuteStartTime = 0
    /\ requestQueue = << >>
    /\ processingQueue = FALSE
    /\ drainTimer = NoTimer
    /\ req = [c \in Callers |-> IdleReq]
    /\ win = NewWin

\* The limiter's mutable fields as one record, threaded through a synchronous run.
LimState == [count |-> requestsThisMinute, start |-> minuteStartTime,
             queue |-> requestQueue, busy |-> processingQueue,
             timer |-> drainTimer, req |-> req, win |-> win]

\* checkMinuteReset()
CheckMinuteResetEarly(s, t) ==
    IF 2 * (t - s.start) >= WindowMs
        THEN [s EXCEPT !.count = 0, !.start = t, !.win = NewWin]
        ELSE s
\* checkMinuteReset() that restarts the window at the time of the check.
CheckMinuteResetDrifts(s, t) ==
    IF t - s.start >= WindowMs
        THEN [s EXCEPT !.count = 0, !.start = t, !.win = NewWin]
        ELSE s
CheckMinuteReset(s, t) ==
    IF t - s.start >= WindowMs
        THEN [s EXCEPT !.count = 0, !.start = t - ((t - s.start) % WindowMs), !.win = NewWin]
        ELSE s

\* processQueue whose timed-out head falls through to the grant.
RECURSIVE DrainLoopRegrants(_, _)
DrainLoopRegrants(s0, t) ==
    IF s0.queue = << >>
        THEN [s0 EXCEPT !.busy = FALSE, !.timer = NoTimer]
        ELSE LET s == CheckMinuteReset(s0, t)
                 request == Head(s.queue)
             IN IF s.count >= maxRequestsPerMinute
                    THEN [s EXCEPT !.timer = t + (WindowMs - (t - s.start))]
                    ELSE DrainLoopRegrants([s EXCEPT
                             !.count = @ + 1,
                             !.queue = Tail(@),
                             !.win.drained = @ + 1,
                             !.req[request.caller].status = "resolved",
                             !.req[request.caller].settleAt = t], t)

\* processQueue without its finally: the flag stays set when the loop ends.
RECURSIVE DrainLoopKeepsFlag(_, _)
DrainLoopKeepsFlag(s0, t) ==
    IF s0.queue = << >>
        THEN [s0 EXCEPT !.timer = NoTimer]
        ELSE LET s == CheckMinuteReset(s0, t)
                 request == Head(s.queue)
             IN IF s.count >= maxRequestsPerMinute
                    THEN [s EXCEPT !.timer = t + (WindowMs - (t - s.start))]
                    ELSE IF t - request.timestamp >= MaxWaitMs
                        THEN DrainLoopKeepsFlag([s EXCEPT
                                 !.queue = Tail(@),
                                 !.req[request.caller].status = "rejected",
                                 !.req[request.caller].settleAt = t], t)
                        ELSE DrainLoopKeepsFlag([s EXCEPT
                                 !.count = @ + 1,
                                 !.queue = Tail(@),
                                 !.win.drained = @ + 1,
                                 !.req[request.caller].status = "resolved",
                                 !.req[request.caller].settleAt = t], t)

\* One pass of processQueue's while loop and everything after it, up to the
\* next suspension (the sleep until the window resets) or the end of the loop.
RECURSIVE DrainLoop(_, _)
DrainLoop(s0, t) ==
    IF s0.queue = << >>
        THEN [s0 EXCEPT !.busy = FALSE, !.timer = NoTimer]
        ELSE LET s == CheckMinuteReset(s0, t)
                 request == Head(s.queue)
             IN IF s.count >= maxRequestsPerMinute
                    THEN [s EXCEPT !.timer = t + (WindowMs - (t - s.start))]
                    ELSE IF t - request.timestamp >= MaxWaitMs
                        THEN DrainLoop([s EXCEPT
                                 !.queue = Tail(@),
                                 !.req[request.caller].status = "rejected",
                                 !.req[request.caller].settleAt = t], t)
                        ELSE DrainLoop([s EXCEPT
                                 !.count = @ + 1,
                                 !.queue = Tail(@),
                                 !.win.drained = @ + 1,
                                 !.req[request.caller].status = "resolved",
                                 !.req[request.caller].settleAt = t], t)

\* processQueue()
ProcessQueue(s, t) ==
    IF s.busy THEN s ELSE DrainLoop([s EXCEPT !.busy = TRUE], t)

\* waitForToken() called by c at time t
WaitForTokenRun(s0, c, t) ==
    LET s == CheckMinuteReset(s0, t)
        called == [s EXCEPT !.win.calls = @ + 1,
                            !.req[c] = [status |-> "pending", queued |-> FALSE, callAt |-> t,
                                        winStart |-> s.start, settleAt |-> t]]
    IN IF s.count < maxRequestsPerMinute
          THEN [called EXCEPT !.count = @ + 1,
                              !.win.immediate = @ + 1,
                              !.req[c].status = "resolved"]
          ELSE ProcessQueue([called EXCEPT
                                !.queue = Append(@, [caller |-> c, timestamp |-> t]),
                                !.req[c].queued = TRUE], t)

SetLimiter(s) ==
    /\ requestsThisMinute' = s.count
    /\ minuteStartTime' = s.start
    /\ requestQueue' = s.queue
    /\ processingQueue' = s.busy
    /\ drainTimer' = s.timer
    /\ req' = s.req
    /\ win' = s.win

WaitForToken(c) ==
    /\ req[c].status # "pending"
    /\ SetLimiter(WaitForTokenRun(LimState, c, now))
    /\ UNCHANGED <<now, maxRequestsPerMinute>>

\* The timer of the sleeping drain loop fires (never early, possibly late).
DrainWake ==
    /\ processingQueue
    /\ drainTimer # NoTimer
    /\ now >= drainTimer
    /\ SetLimiter(DrainLoop([LimState EXCEPT !.timer = NoTimer], now))
    /\ UNCHANGED <<now, maxRequestsPerMinute>>

Tick(d) ==
    /\ now + d <= MaxTime
    /\ now' = now + d


(***************************************************************************)
(* RateLimiter of utils: the token bucket                                  *)
(***************************************************************************)
\* One token per interval of a minute, a bucket of m tokens.
BucketOptions(m) == [tokensPerInterval |-> 1, intervalMs |-> WindowMs, maxTokens |-> m]

BucketFresh ==
    /\ tokens = options.maxTokens
    /\ lastRefill = 0
    /\ bucketQueue = << >>
    /\ bucketBusy = FALSE
    /\ bucketTimer = NoTimer
    /\ breq = [c \in Callers |-> IdleReq]

BucketIdle ==
    /\ lver = "window"
    /\ options = BucketOptions(1)
    /\ BucketFresh

BucketInit ==
    /\ lver = "bucket"
    /\ options \in {BucketOptions(m) : m \in 1..MaxLimit}
    /\ BucketFresh

\* The bucket's mutable fields as one record, threaded through a synchronous run.
BucketState == [tokens |-> tokens, last |-> lastRefill, queue |-> bucketQueue,
                busy |-> bucketBusy, timer |-> bucketTimer, req |-> breq]

\* refillTokens()
RefillTokens(s, t) ==
    LET tokensToAdd == ((t - s.last) * options.tokensPerInterval) \div options.intervalMs
    IN IF tokensToAdd > 0
          THEN [s EXCEPT !.tokens = Min(options.maxTokens, @ + tokensToAdd), !.last = t]
          ELSE s

\* Math.ceil(intervalMs / tokensPerInterval)
TimeUntilNextToken ==
    (options.intervalMs + options.tokensPerInterval - 1) \div options.tokensPerInterval

\* The while loop of processQueue up to its next sleep or its end.
RECURSIVE BucketDrain(_, _)
BucketDrain(s0, t) ==
    IF s0.queue = << >>
        THEN [s0 EXCEPT !.busy = FALSE, !.timer = NoTimer]
        ELSE LET s == RefillTokens(s0, t)
                 request == Head(s.queue)
             IN IF s.tokens <= 0
                    THEN [s EXCEPT !.timer = t + TimeUntilNextToken]
                    ELSE IF t - request.timestamp >= MaxWaitMs
                        THEN BucketDrain([s EXCEPT
                                 !.queue = Tail(@),
                                 !.req[request.caller].status = "rejected",
                                 !.req[request.caller].settleAt = t], t)
                        ELSE BucketDrain([s EXCEPT
                                 !.tokens = @ - 1,
                                 !.queue = Tail(@),
                                 !.req[request.caller].status = "resolved",
                                 !.req[request.caller].settleAt = t], t)

SetBucket(s) ==
    /\ tokens' = s.tokens
    /\ lastRefill' = s.last
    /\ bucketQueue' = s.queue
    /\ bucketBusy' = s.busy
    /\ bucketTimer' = s.timer
    /\ breq' = s.req
    /\ UNCHANGED <<lver, options>>

\* waitForToken() of the bucket, called by c: the call is queued, processQueue runs.
BucketWaitForToken(c) ==
    /\ breq[c].status # "pending"
    /\ LET s == [BucketState EXCEPT
                    !.queue = Append(@, [caller |-> c, timestamp |-> now]),
                    !.req[c] = [status |-> "pending", queued |-> TRUE, callAt |-> now,
                                winStart |-> 0, settleAt |-> now]]
       IN SetBucket(IF s.busy THEN s ELSE BucketDrain([s EXCEPT !.busy = TRUE], now))

\* The timer of the sleeping loop fires (never early, possibly late).
BucketWake ==
    /\ bucketBusy
    /\ bucketTimer # NoTimer
    /\ now >= bucketTimer
    /\ SetBucket(BucketDrain([BucketState EXCEPT !.timer = NoTimer], now))

(***************************************************************************)
(* BotMentionHandler.handleMention, run as a job of the interaction queue  *)
(***************************************************************************)
MentionFresh ==
    /\ mpc = "idle"
    /\ mrun = "none"
    /\ timer = "none"
    /\ gen = "none"
    /\ apology = "error"
    /\ sent = << >>
    /\ failedSends = 0
    /\ mres = "none"

MentionIdle == mver = "plain" /\ msched = "serial" /\ MentionFresh

MentionInit ==
    /\ mver \in {"timeout", "plain"}
    /\ msched \in {"serial", "concurrent", "limited"}
    /\ MentionFresh

\* The scheduler starts the job: handleMention runs up to `await buildContext`;
\* the timeout revision has created timeoutPromise and set its timer.
StartMention(run) ==
    /\ mpc' = "context"
    /\ mrun' = run
    /\ timer' = IF mver = "timeout" THEN "armed" ELSE "none"
    /\ mres' = "none"
    /\ UNCHANGED <<mver, msched, gen, apology, sent, failedSends>>

\* The limited scheduler starts with processFallback when its limiter refuses.
HandleMention(run) ==
    /\ mpc = "idle"
    /\ run = "main" \/ (run = "fallback" /\ msched = "limited")
    /\ StartMention(run)

\* The outer catch: the apology is being sent.
Apologise(kind) ==
    /\ mpc' = "apologising"
    /\ apology' = kind

BuildContextSettles(ok) ==
    /\ mpc = "context"
    /\ IF ok THEN mpc' = "analysis" /\ UNCHANGED apology ELSE Apologise("error")
    /\ UNCHANGED <<mver, msched, mrun, timer, gen, sent, failedSends, mres>>

\* getDetailedImageAnalysis returns (it catches its errors); generateResponse is
\* called, which first waits for its rate-limit token, and, in the timeout
\* revision, its promise is raced against timeoutPromise.
AnalysisSettles ==
    /\ mpc = "analysis"
    /\ gen' = "waiting"
    /\ IF timer = "fired"
          THEN Apologise("timeout") /\ UNCHANGED timer
          ELSE /\ mpc' = "generating"
               /\ timer' = IF timer = "armed" THEN "raced" ELSE timer
               /\ UNCHANGED apology
    /\ UNCHANGED <<mver, msched, mrun, sent, failedSends, mres>>

\* generateResponse settles; handleMention goes on only while it awaits the race.
GenerationEnds(ok) ==
    /\ gen' = "done"
    /\ IF mpc = "generating"
          THEN /\ IF ok THEN mpc' = "replying" /\ UNCHANGED apology ELSE Apologise("error")
               /\ timer' = IF timer = "raced" THEN "spent" ELSE timer
          ELSE UNCHANGED <<mpc, apology, timer>>
    /\ UNCHANGED <<mver, msched, mrun, sent, failedSends, mres>>

\* waitForToken of the generation settles: granted, the provider is called;
\* rejected (the limiter's timeout), generateResponse throws.
GenerationTokenSettles(granted) ==
    /\ gen = "waiting"
    /\ mpc # "exited"
    /\ IF granted
          THEN /\ gen' = "calling"
               /\ UNCHANGED <<mver, msched, mpc, mrun, timer, apology, sent, failedSends, mres>>
          ELSE GenerationEnds(FALSE)

\* The provider call of the generation settles.
GenerationSettles(ok) ==
    /\ gen = "calling"
    /\ mpc # "exited"
    /\ GenerationEnds(ok)

\* The 30 s timer rejects timeoutPromise. During the race the race rejects. Before
\* the race, or when the race is never reached, the promise has no handler: the
\* rejection is unhandled, and the runtime either only reports it or exits.
TimeoutFires(exits) ==
    /\ mpc \notin {"idle", "exited"}
    /\ \/ /\ timer = "raced"
          /\ timer' = "fired"
          /\ Apologise("timeout")
          /\ ~exits
          /\ UNCHANGED mres
       \/ /\ timer = "spent"
          /\ timer' = "fired"
          /\ ~exits
          /\ UNCHANGED <<mpc, apology, mres>>
       \/ /\ timer = "armed"
          /\ timer' = "fired"
          /\ IF exits
                THEN mpc' = "exited" /\ mres' = "exited"
                ELSE UNCHANGED <<mpc, mres>>
          /\ UNCHANGED apology
    /\ UNCHANGED <<mver, msched, mrun, gen, sent, failedSends>>

\* `await message.reply({ content: response })` settles.
ReplySettles(ok) ==
    /\ mpc = "replying"
    /\ IF ok
          THEN /\ sent' = Append(sent, "reply")
               /\ mpc' = "caching"
               /\ UNCHANGED <<apology, failedSends>>
          ELSE /\ failedSends' = failedSends + 1
               /\ Apologise("error")
               /\ UNCHANGED sent
    /\ UNCHANGED <<mver, msched, mrun, timer, gen, mres>>

\* processImages and addMessage of the bot's reply: handleMention resolves.
ResponseCached ==
    /\ mpc = "caching"
    /\ mpc' = "settled"
    /\ mres' = "completed"
    /\ UNCHANGED <<mver, msched, mrun, timer, gen, apology, sent, failedSends>>

\* `await message.reply(apology)` in the catch block settles; when it rejects,
\* handleMention rejects, with a rate-limit error of the platform or another.
ApologySettles(ok, rateLimit) ==
    /\ mpc = "apologising"
    /\ mpc' = "settled"
    /\ IF ok
          THEN /\ sent' = Append(sent, IF apology = "timeout" THEN "timeoutApology" ELSE "apology")
               /\ mres' = "completed"
               /\ ~rateLimit
               /\ UNCHANGED failedSends
          ELSE /\ failedSends' = failedSends + 1
               /\ mres' = IF rateLimit THEN "rateLimit" ELSE "threw"
               /\ UNCHANGED sent
    /\ UNCHANGED <<mver, msched, mrun, timer, gen, apology>>

\* processWithMainModel / processFallback of the limited scheduler call the job
\* again: after a rate-limit error of the main run, after any error of the
\* first fallback run.
RunsAgain ==
    \/ msched = "limited" /\ mrun = "main" /\ mres = "rateLimit"
    \/ msched = "limited" /\ mrun = "fallback" /\ mres \in {"rateLimit", "threw"}

ProcessFallback ==
    /\ mpc = "settled"
    /\ RunsAgain
    /\ StartMention(IF mrun = "main" THEN "fallback" ELSE "instant")

\* The scheduler catches and logs the job's error.
JobFails ==
    /\ mpc = "settled"
    /\ mres \in {"rateLimit", "threw"}
    /\ ~RunsAgain
    /\ mres' = "failed"
    /\ UNCHANGED <<mver, msched, mpc, mrun, timer, gen, apology, sent, failedSends>>

(***************************************************************************)
(* BotInteractionQueue                                                     *)
(***************************************************************************)
\* process.env without USE_FALLBACK_MODEL and USE_INSTANT_FALLBACK
NoFlags == [fallback |-> FALSE, instant |-> FALSE]

NewJob == [status |-> "new", priority |-> 1, runs |-> 0]

QueueIdle ==
    /\ env = NoFlags
    /\ qver = "limited"
    /\ maxConcurrent = 1
    /\ queue = << >>
    /\ processing = 0
    /\ loops = {}
    /\ job = [j \in Jobs |-> NewJob]
    /\ ran = << >>
    /\ qlim = [count |-> 0, start |-> 0]

\* The limited revision may already have served requests in the current minute.
QueueInit ==
    /\ qver \in {"serial", "concurrent", "limited"}
    /\ maxConcurrent \in (IF qver = "serial" THEN {1} ELSE Budgets)
    /\ queue = << >>
    /\ processing = (IF qver = "serial" THEN FALSE ELSE 0)
    /\ loops = {}
    /\ job = [j \in Jobs |-> NewJob]
    /\ ran = << >>
    /\ qlim \in (IF qver = "limited"
                    THEN {[count |-> 0, start |-> 0], [count |-> QueueLimit - 1, start |-> 0]}
                    ELSE {[count |-> 0, start |-> 0]})
    /\ env = NoFlags

MinDelayMs == IF qver = "serial" THEN SerialDelayMs ELSE DefaultDelayMs

\* The comparator of queue.sort: a is placed before b.
SortsBeforeAscending(a, b) ==
    \/ a.priority < b.priority
    \/ a.priority = b.priority /\ a.timestamp < b.timestamp
SortsBefore(a, b) ==
    \/ a.priority > b.priority
    \/ a.priority = b.priority /\ a.timestamp < b.timestamp

\* Array.prototype.sort is stable: x goes in front of the first entry it sorts before.
RECURSIVE InsertSorted(_, _)
InsertSorted(x, q) ==
    IF q = << >> THEN <<x>>
    ELSE IF SortsBefore(x, Head(q)) THEN <<x>> \o q
    ELSE <<Head(q)>> \o InsertSorted(x, Tail(q))

RECURSIVE SortQueue(_)
SortQueue(q) ==
    IF q = << >> THEN << >>
    ELSE InsertSorted(q[Len(q)], SortQueue(SubSeq(q, 1, Len(q) - 1)))

\* The scheduler's fields as one record, threaded through a synchronous run.
QState == [queue |-> queue, processing |-> processing, loops |-> loops, job |-> job,
           ran |-> ran, qlim |-> qlim, env |-> env]

SetQueue(s) ==
    /\ queue' = s.queue
    /\ processing' = s.processing
    /\ loops' = s.loops
    /\ job' = s.job
    /\ ran' = s.ran
    /\ qlim' = s.qlim
    /\ env' = s.env
    /\ UNCHANGED <<qver, maxConcurrent>>

\* The function of job j is invoked.
Invoke(s, j) ==
    [s EXCEPT !.job[j].status = "running",
              !.job[j].runs = @ + 1,
              !.ran = IF s.job[j].runs = 0 THEN Append(@, j) ELSE @]

Loop(pc, j, wake, avail) == [pc |-> pc, job |-> j, wake |-> wake, avail |-> avail]

\* RequestRateLimiter.checkMinuteReset of the scheduler's limiter
QCheckMinuteReset(l, t) ==
    IF t - l.start >= WindowMs
        THEN [count |-> 0, start |-> t - ((t - l.start) % WindowMs)]
        ELSE l

\* ---- limited revision (BotInteractionQueue.ts) ----

\* One iteration of the while loop up to `await this.rateLimiter.getStatus()`.
TakeLimitedUnbounded(s, t) ==
    IF Len(s.queue) > 0
        THEN LET item == Head(s.queue)
                 l == QCheckMinuteReset(s.qlim, t)
             IN [s EXCEPT !.queue = Tail(@),
                          !.processing = @ + 1,
                          !.job[item.job].status = "admitted",
                          !.qlim = l,
                          !.loops = @ \cup {Loop("status", item.job, 0, l.count < QueueLimit)}]
        ELSE s
TakeLimited(s, t) ==
    IF Len(s.queue) > 0 /\ s.processing < maxConcurrent
        THEN LET item == Head(s.queue)
                 l == QCheckMinuteReset(s.qlim, t)
             IN [s EXCEPT !.queue = Tail(@),
                          !.processing = @ + 1,
                          !.job[item.job].status = "admitted",
                          !.qlim = l,
                          !.loops = @ \cup {Loop("status", item.job, 0, l.count < QueueLimit)}]
        ELSE s

ProcessQueueLimited(s, t) ==
    IF s.processing >= maxConcurrent
        THEN s
        ELSE TakeLimited([s EXCEPT !.queue = SortQueue(@)], t)

\* processFallback: the first attempt under USE_FALLBACK_MODEL
StartFallback(s, lp) ==
    LET s1 == Invoke([s EXCEPT !.env.fallback = TRUE], lp.job)
    IN [s1 EXCEPT !.loops = (@ \ {lp}) \cup {Loop("fallback", lp.job, 0, TRUE)}]

\* The loop body without its finally: a job that threw keeps its slot.
FinishLimitedNoFinally(s, lp, status, t) ==
    LET s1 == [s EXCEPT !.job[lp.job].status = status,
                        !.processing = IF status = "completed" THEN @ - 1 ELSE @,
                        !.loops = @ \ {lp}]
        s2 == IF status = "completed" THEN ProcessQueueLimited(s1, t) ELSE s1
    IN IF Len(s2.queue) > 0
          THEN [s2 EXCEPT !.loops = @ \cup {Loop("delay", lp.job, t + MinDelayMs, TRUE)}]
          ELSE s2

\* The catch/finally of the loop body and the statements after it.
FinishLimited(s, lp, status, t) ==
    LET s1 == [s EXCEPT !.job[lp.job].status = status,
                        !.processing = @ - 1,
                        !.loops = @ \ {lp}]
        s2 == ProcessQueueLimited(s1, t)
    IN IF Len(s2.queue) > 0
          THEN [s2 EXCEPT !.loops = @ \cup {Loop("delay", lp.job, t + MinDelayMs, TRUE)}]
          ELSE s2

\* getStatus() has resolved: processWithMainModel or processFallback starts the job.
LimitedAfterStatus(lp) ==
    /\ qver = "limited" /\ lp \in loops /\ lp.pc = "status"
    /\ LET l == QCheckMinuteReset(qlim, now)
           s == [QState EXCEPT !.qlim = IF lp.avail THEN l ELSE @]
       IN SetQueue(IF lp.avail /\ l.count < QueueLimit
                      THEN LET s1 == Invoke(s, lp.job)
                           IN [s1 EXCEPT !.loops = (@ \ {lp}) \cup {Loop("main", lp.job, 0, TRUE)}]
                      ELSE StartFallback(s, lp))

\* The job invoked by executeRequest settles: "ok", "rateLimit" (an error whose
\* message contains "rate limit") or "error".
LimitedMainDone(lp, outcome) ==
    /\ qver = "limited" /\ lp \in loops /\ lp.pc = "main"
    /\ SetQueue(CASE outcome = "ok" ->
                        FinishLimited([QState EXCEPT !.qlim.count = @ + 1], lp, "completed", now)
                  [] outcome = "rateLimit" -> StartFallback(QState, lp)
                  [] OTHER -> FinishLimited(QState, lp, "failed", now))

\* The first fallback attempt settles; a failure starts the instant fallback.
LimitedFallbackDone(lp, ok) ==
    /\ qver = "limited" /\ lp \in loops /\ lp.pc = "fallback"
    /\ SetQueue(IF ok
                   THEN FinishLimited([QState EXCEPT !.env = NoFlags],
                                      lp, "completed", now)
                   ELSE LET s1 == Invoke([QState EXCEPT !.env.instant = TRUE], lp.job)
                        IN [s1 EXCEPT !.loops = (@ \ {lp}) \cup {Loop("instant", lp.job, 0, TRUE)}])

LimitedInstantDone(lp, ok) ==
    /\ qver = "limited" /\ lp \in loops /\ lp.pc = "instant"
    /\ SetQueue(FinishLimited([QState EXCEPT !.env = NoFlags],
                              lp, IF ok THEN "completed" ELSE "failed", now))

\* The delay between interactions has elapsed: the while condition is tested again.
LimitedDelayDone(lp) ==
    /\ qver = "limited" /\ lp \in loops /\ lp.pc = "delay"
    /\ now >= lp.wake
    /\ SetQueue(TakeLimited([QState EXCEPT !.loops = @ \ {lp}], now))

\* ---- concurrent revision ----

\* The while loop of processQueue up to its delay or its end.
TakeConcurrentUnbounded(s, t) ==
    IF Len(s.queue) > 0
        THEN LET item == Head(s.queue)
                 s1 == Invoke([s EXCEPT !.queue = Tail(@), !.processing = @ + 1], item.job)
             IN IF Len(s1.queue) > 0
                   THEN [s1 EXCEPT !.loops = @ \cup {Loop("delay", item.job, t + MinDelayMs, TRUE)}]
                   ELSE s1
        ELSE s
TakeConcurrent(s, t) ==
    IF Len(s.queue) > 0 /\ s.processing < maxConcurrent
        THEN LET item == Head(s.queue)
                 s1 == Invoke([s EXCEPT !.queue = Tail(@), !.processing = @ + 1], item.job)
             IN IF Len(s1.queue) > 0
                   THEN [s1 EXCEPT !.loops = @ \cup {Loop("delay", item.job, t + MinDelayMs, TRUE)}]
                   ELSE s1
        ELSE s

ProcessQueueConcurrent(s, t) ==
    IF s.processing >= maxConcurrent THEN s ELSE TakeConcurrent(s, t)

\* processInteraction settles; its finally frees the slot and calls processQueue.
ConcurrentJobDone(j, ok) ==
    /\ qver = "concurrent" /\ job[j].status = "running"
    /\ SetQueue(ProcessQueueConcurrent(
           [QState EXCEPT !.job[j].status = IF ok THEN "completed" ELSE "failed",
                          !.processing = @ - 1], now))

ConcurrentDelayDone(lp) ==
    /\ qver = "concurrent" /\ lp \in loops /\ lp.pc = "delay"
    /\ now >= lp.wake
    /\ SetQueue(TakeConcurrent([QState EXCEPT !.loops = @ \ {lp}], now))

\* ---- serial revision ----

\* The loop without its finally: the flag stays set when the loop ends.
TakeSerialKeepsFlag(s, t) ==
    IF Len(s.queue) > 0
        THEN LET item == Head(s.queue)
             IN [s EXCEPT !.queue = Tail(@),
                          !.job[item.job].status = "admitted",
                          !.loops = {Loop("typing", item.job, t + MinDelayMs, TRUE)}]
        ELSE [s EXCEPT !.loops = {}]

\* One iteration of the while loop up to its first delay, or the end of the loop.
TakeSerial(s, t) ==
    IF Len(s.queue) > 0
        THEN LET item == Head(s.queue)
             IN [s EXCEPT !.queue = Tail(@),
                          !.job[item.job].status = "admitted",
                          !.loops = {Loop("typing", item.job, t + MinDelayMs, TRUE)}]
        ELSE [s EXCEPT !.processing = FALSE, !.loops = {}]

ProcessQueueSerial(s, t) ==
    IF s.processing \/ Len(s.queue) = 0
        THEN s
        ELSE TakeSerial([s EXCEPT !.processing = TRUE, !.queue = SortQueue(@)], t)

\* The initial delay with the typing indicator has elapsed: the job is invoked.
SerialTypingDone(lp) ==
    /\ qver = "serial" /\ lp \in loops /\ lp.pc = "typing"
    /\ now >= lp.wake
    /\ SetQueue(LET s1 == Invoke(QState, lp.job)
                IN [s1 EXCEPT !.loops = {Loop("run", lp.job, 0, TRUE)}])

\* The job settles; the loop sleeps again when more jobs wait, else it ends.
SerialJobDone(lp, ok) ==
    /\ qver = "serial" /\ lp \in loops /\ lp.pc = "run"
    /\ SetQueue(LET s1 == [QState EXCEPT !.job[lp.job].status = IF ok THEN "completed" ELSE "failed"]
                IN IF Len(s1.queue) > 0
                      THEN [s1 EXCEPT !.loops = {Loop("delay", lp.job, now + MinDelayMs, TRUE)}]
                      ELSE TakeSerial(s1, now))

SerialDelayDone(lp) ==
    /\ qver = "serial" /\ lp \in loops /\ lp.pc = "delay"
    /\ now >= lp.wake
    /\ SetQueue(TakeSerial(QState, now))

\* ---- enqueue ----
NextJob == CHOOSE j \in Jobs : job[j].status = "new" /\ \A k \in Jobs : k < j => job[k].status # "new"

\* enqueue(interaction, priority); the concurrent revision takes no priority.
Enqueue(p) ==
    /\ \E j \in Jobs : job[j].status = "new"
    /\ qver = "concurrent" => p = 1
    /\ LET j == NextJob
           s == [QState EXCEPT !.queue = Append(@, [job |-> j, timestamp |-> now, priority |-> p]),
                               !.job[j].status = "queued",
                               !.job[j].priority = p]
       IN SetQueue(CASE qver = "serial" -> IF s.processing THEN s ELSE ProcessQueueSerial(s, now)
                     [] qver = "concurrent" -> ProcessQueueConcurrent(s, now)
                     [] OTHER -> ProcessQueueLimited(s, now))

\* Time passes until the next pending timer of the scheduler is due.
TimerDue ==
    /\ \E lp \in loops : lp.wake > now
    /\ now' = CHOOSE w \in {lp.wake : lp \in loops} :
                  w > now /\ \A lp \in loops : lp.wake > now => w <= lp.wake

QueueTick ==
    /\ now < MaxQueueTicks * MinDelayMs
    /\ TimerDue


(***************************************************************************)
(* GroqHandler: generateResponse and executeWithFallback                   *)
(***************************************************************************)
NoError == [kind |-> "none", at |-> 0]
TierRank(t) == CHOOSE i \in 1..3 : Tiers[i] = t

RouterFresh ==
    /\ changes = 0
    /\ rpc = "idle"
    /\ models = << >>
    /\ ti = 0
    /\ attempt = 0
    /\ calls = << >>
    /\ lastError = NoError
    /\ thrown = NoError
    /\ delays = 0
    /\ reply = "none"
    /\ tokensGranted = 0

RouterIdle ==
    /\ rver = "envFlag"
    /\ maxRetries = ChatMaxRetries
    /\ health = [t \in {"primary", "fallback", "instantFallback"} |-> "ok"]
    /\ RouterFresh

\* Any revision, the chat or the vision configuration, any provider.
RouterInit ==
    /\ rver \in {"limited", "threeTier", "envFlag", "retry"}
    /\ maxRetries \in {ChatMaxRetries, VisionMaxRetries}
    /\ health \in [{"primary", "fallback", "instantFallback"} -> {"ok", "capacity", "error"}]
    /\ RouterFresh

RState == [pc |-> rpc, models |-> models, ti |-> ti, attempt |-> attempt, calls |-> calls,
           lastError |-> lastError, thrown |-> thrown, delays |-> delays, granted |-> tokensGranted]

SetRouter(s) ==
    /\ rpc' = s.pc
    /\ models' = s.models
    /\ ti' = s.ti
    /\ attempt' = s.attempt
    /\ calls' = s.calls
    /\ lastError' = s.lastError
    /\ thrown' = s.thrown
    /\ delays' = s.delays
    /\ tokensGranted' = s.granted
    /\ UNCHANGED <<rver, maxRetries, health, changes, reply>>

\* The list `models` built at the start of executeWithFallback.
ModelsOf(v, e) ==
    CASE v = "threeTier" -> Tiers
      [] v = "retry" -> <<"primary", "fallback">>
      [] OTHER -> <<"primary">> \o (IF e.fallback THEN <<"fallback">> ELSE << >>)
                               \o (IF e.instant THEN <<"instantFallback">> ELSE << >>)

\* The body of the try block starts for models[ti]: the limited revision first
\* waits for a token, the others call the provider.
BeginAttempt(s) == [s EXCEPT !.pc = IF rver = "limited" THEN "token" ELSE "call"]

\* for (const model of models): the next model, or the throw after the loop.
NextModel(s) ==
    IF s.ti < Len(s.models)
        THEN BeginAttempt([s EXCEPT !.ti = @ + 1, !.attempt = 1])
        ELSE [s EXCEPT !.pc = "thrown", !.thrown = s.lastError]

\* The catch block for a failure of kind k recorded as attempt number n.
OnFailureKeepFirst(s, k, n) ==
    NextModel([s EXCEPT !.lastError = IF @ = NoError THEN [kind |-> k, at |-> n] ELSE @])
OnFailure(s, k, n) ==
    LET e == [kind |-> k, at |-> n]
        s1 == [s EXCEPT !.lastError = e]
    IN CASE rver = "threeTier" ->
               IF k = "capacity"
                   THEN [s1 EXCEPT !.pc = "backoff"]
                   ELSE [s1 EXCEPT !.pc = "thrown", !.thrown = e]
         [] rver = "retry" ->
               IF s.attempt < maxRetries
                   THEN BeginAttempt([s1 EXCEPT !.attempt = @ + 1])
                   ELSE NextModel(s1)
         [] OTHER -> NextModel(s1)

\* generateResponse calls executeWithFallback.
GenerateResponse ==
    /\ rpc = "idle"
    /\ SetRouter(NextModel([RState EXCEPT !.models = ModelsOf(rver, env)]))

\* rateLimiter.waitForToken() settles: the token is granted, or the limiter
\* rejects with its timeout error.
TokenSettles(granted) ==
    /\ rpc = "token"
    /\ SetRouter(IF granted
                    THEN [RState EXCEPT !.pc = "call", !.granted = @ + 1]
                    ELSE OnFailure([RState EXCEPT !.calls = Append(@,
                                        [tier |-> models[ti], kind |-> "timeout", invoked |-> FALSE])],
                                   "timeout", Len(calls) + 1))

\* operation(model) settles as the provider answers for that tier.
CallSettles ==
    /\ rpc = "call"
    /\ LET k == health[models[ti]]
           s == [RState EXCEPT !.calls = Append(@, [tier |-> models[ti], kind |-> k, invoked |-> TRUE])]
       IN SetRouter(IF k = "ok"
                       THEN [s EXCEPT !.pc = "returned"]
                       ELSE OnFailure(s, k, Len(calls) + 1))

\* The 1000 ms delay of the three-tier revision has elapsed.
BackoffDone ==
    /\ rpc = "backoff"
    /\ SetRouter(NextModel([RState EXCEPT !.delays = @ + 1]))

\* What generateResponse gives its caller for an outcome of executeWithFallback.
ReplyFor(outcome) == IF outcome = "returned" THEN "generated" ELSE "apology"

\* The try/catch of generateResponse around executeWithFallback.
GenerateResponseSettles ==
    /\ rpc \in {"returned", "thrown"}
    /\ reply' = ReplyFor(rpc)
    /\ rpc' = "done"
    /\ UNCHANGED <<rver, maxRetries, health, changes, models, ti, attempt, calls,
                   lastError, thrown, delays, tokensGranted>>

\* The provider starts to answer differently for one tier.
ProviderChanges(t, k) ==
    /\ changes < MaxProviderChanges
    /\ rpc \notin {"idle", "done"}
    /\ health[t] # k
    /\ health' = [health EXCEPT ![t] = k]
    /\ changes' = changes + 1
    /\ UNCHANGED <<rver, maxRetries, rpc, models, ti, attempt, calls, lastError, thrown,
                   delays, reply, tokensGranted>>

(***************************************************************************)
(* ContextBuilder: buildContext, formatMessage, findReferencedMessage      *)
(***************************************************************************)
NoMessage == [id |-> 0, ts |-> 0, ref |-> 0]

ContextFresh ==
    /\ bpc = "idle"
    /\ recent = << >>
    /\ bi = 0
    /\ out = << >>
    /\ fetches = << >>

ContextIdle ==
    /\ bver = "sorted"
    /\ ccache = << >>
    /\ cur = NoMessage
    /\ contextSize = DefaultContextSize
    /\ excludeCurrent = FALSE
    /\ ContextFresh

\* Any cache of up to MaxMsgs messages with distinct ids, in insertion order; the
\* current message is null, one of the cached messages, or a message not cached.
ContextInit ==
    /\ bver \in {"sorted", "nullable", "first"}
    /\ \E n \in 0..MaxMsgs : \E f \in [1..n -> [ts : Timestamps, ref : Refs]] :
          /\ \A i \in 1..n : f[i].ref # i
          /\ ccache = [i \in 1..n |-> [id |-> i, ts |-> f[i].ts, ref |-> f[i].ref]]
          /\ cur \in (IF bver = "first" THEN {} ELSE {NoMessage})
                     \cup {ccache[i] : i \in 1..n}
                     \cup {[id |-> n + 1, ts |-> ts, ref |-> r] : ts \in Timestamps, r \in Refs \ {n + 1}}
    /\ contextSize \in ContextSizes
    /\ excludeCurrent \in (IF bver = "sorted" THEN BOOLEAN ELSE {FALSE})
    /\ ContextFresh

\* The comparator of the sort in buildContext: a is placed before b.
LaterThan(a, b) == a.ts > b.ts
EarlierThan(a, b) == a.ts < b.ts

\* Array.prototype.sort is stable: x goes in front of the first entry it sorts before.
RECURSIVE InsertByTimestamp(_, _)
InsertByTimestamp(x, s) ==
    IF s = << >> THEN <<x>>
    ELSE IF EarlierThan(x, Head(s)) THEN <<x>> \o s
    ELSE <<Head(s)>> \o InsertByTimestamp(x, Tail(s))

RECURSIVE SortByTimestamp(_)
SortByTimestamp(s) ==
    IF s = << >> THEN << >>
    ELSE InsertByTimestamp(s[Len(s)], SortByTimestamp(SubSeq(s, 1, Len(s) - 1)))

\* Array.prototype.slice(-n); slice(-0) is slice(0), the whole array.
SliceLast(s, n) == IF n = 0 THEN s ELSE LastN(s, Min(n, Len(s)))

\* A filter that keeps every entry.
WithoutNone(s, id) == s
RECURSIVE Without(_, _)
Without(s, id) ==
    IF s = << >> THEN << >>
    ELSE IF Head(s).id = id THEN Without(Tail(s), id)
    ELSE <<Head(s)>> \o Without(Tail(s), id)

\* recentMessages as buildContext computes it before formatting.
RecentMessages ==
    IF bver = "sorted"
        THEN LET sorted == SliceLast(SortByTimestamp(ccache), contextSize)
             IN IF cur # NoMessage /\ ~excludeCurrent
                   THEN Append(Without(sorted, cur.id), cur)
                   ELSE sorted
        ELSE SliceLast(ccache, contextSize)

\* cacheManager.findMessage(messageId), and cache.messages.find of the earlier revisions
FindMessage(id) == \E i \in 1..Len(ccache) : ccache[i].id = id

\* What formatMessage does with msg before it has to wait for the platform:
\* kind "plain", "quote" (of the content of message quoted) or "fetch".
Resolve(msg) ==
    IF msg.ref = 0 THEN [kind |-> "plain", quoted |-> 0]
    ELSE IF bver = "sorted"
        THEN IF cur # NoMessage /\ cur.ref = msg.ref THEN [kind |-> "quote", quoted |-> cur.id]
             ELSE IF cur # NoMessage /\ cur.id = msg.ref THEN [kind |-> "quote", quoted |-> cur.id]
             ELSE IF FindMessage(msg.ref) THEN [kind |-> "quote", quoted |-> msg.ref]
             ELSE IF cur # NoMessage THEN [kind |-> "fetch", quoted |-> 0]
             ELSE [kind |-> "plain", quoted |-> 0]
        ELSE IF cur = NoMessage THEN [kind |-> "plain", quoted |-> 0]
             ELSE IF FindMessage(msg.ref) THEN [kind |-> "quote", quoted |-> msg.ref]
             ELSE [kind |-> "fetch", quoted |-> 0]

\* The entry formatMessage returns for msg.
Rendered(msg, kind, quoted) ==
    [id |-> msg.id, kind |-> kind, quoted |-> quoted,
     current |-> (bver = "sorted" /\ cur # NoMessage /\ msg.id = cur.id)]

\* formatMessage has returned: the loop of buildContext goes on or ends.
Pushed(entry) ==
    /\ out' = Append(out, entry)
    /\ bi' = bi + 1
    /\ bpc' = IF bi + 1 > Len(recent) THEN "done" ELSE "format"

\* buildContext up to its first formatMessage
BuildContext ==
    /\ bpc = "idle"
    /\ recent' = RecentMessages
    /\ bi' = 1
    /\ bpc' = IF RecentMessages = << >> THEN "done" ELSE "format"
    /\ UNCHANGED <<bver, ccache, cur, contextSize, excludeCurrent, out, fetches>>

\* formatMessage(msg) up to its return or to the fetch from the platform
FormatMessage ==
    /\ bpc = "format"
    /\ LET msg == recent[bi]
           r == Resolve(msg)
       IN IF r.kind = "fetch"
             THEN bpc' = "fetch" /\ UNCHANGED <<bi, out>>
             ELSE Pushed(Rendered(msg, r.kind, r.quoted))
    /\ UNCHANGED <<bver, ccache, cur, contextSize, excludeCurrent, recent, fetches>>

\* The catch of a failed fetch (or of processImages throwing on the fetched message)
FetchFailed(msg) ==
    IF bver = "sorted" THEN Rendered(msg, "plain", 0) ELSE Rendered(msg, "unavailable", 0)

\* channel.messages.fetch (and processImages) settles; ts is the createdAt of the
\* message fetched.
FetchSettles(ok, ts) ==
    /\ bpc = "fetch"
    /\ LET msg == recent[bi]
       IN /\ Pushed(IF ok THEN Rendered(msg, "quote", msg.ref) ELSE FetchFailed(msg))
          /\ fetches' = Append(fetches, [id |-> msg.ref, ok |-> ok, at |-> bi])
          /\ ccache' = IF ok /\ bver # "sorted"
                          THEN Evict(Append(ccache, [id |-> msg.ref, ts |-> ts, ref |-> 0]), maxSize)
                          ELSE ccache
    /\ UNCHANGED <<bver, cur, contextSize, excludeCurrent, recent>>

(***************************************************************************)
(* MessageHandler: handleMessage, initializeCache, processMessage          *)
(***************************************************************************)
\* The channel the messages arrive in, the message it held before the start,
\* and the messages delivered afterwards.  index.ts drops the messages of bots
\* before handleMessage, so every delivered message is another participant's.
Chan == "c1"
OldId == 1
Inbound == (OldId + 1)..(OldId + MaxInbound)
\* message.reference: none, a message of the bot, a message of somebody else,
\* or a message the platform can no longer fetch
References == {"none", "bot", "other", "gone"}
Undelivered == [mentioned |-> FALSE, ref |-> "none"]
InboundSizes == {2, 3}

InboundFresh ==
    /\ processingMessages = {}
    /\ hpc = [m \in Inbound |-> "new"]
    /\ hmsg = [m \in Inbound |-> Undelivered]
    /\ history = <<OldId>>
    /\ hfetched = [m \in Inbound |-> << >>]
    /\ enqueued = {}

InboundIdle == hver = "direct" /\ InboundFresh

\* The direct revision starts with the channel's cache filled at startup; the
\* guarded revision starts without a cache, with the rows an earlier run saved.
InboundInit ==
    /\ hver \in {"direct", "guarded"}
    /\ InboundFresh
    /\ cver = "database"
    /\ maxSize \in InboundSizes
    /\ store \in {[ch \in Channels |-> << >>],
                  [ch \in Channels |-> IF ch = Chan THEN <<OldId>> ELSE << >>]}
    /\ hver = "direct" => store[Chan] = <<OldId>>
    /\ caches = (IF hver = "direct" THEN [c \in {Chan} |-> <<OldId>>] ELSE << >>)
    /\ emitted = << >>
    /\ nextId = [ch \in Channels |-> 1]
    /\ clears = 0
    /\ saveFailures = 0
    /\ appended = [ch \in Channels |-> << >>]

\* ChannelCacheManager.addMessage for a message with a given id.
PushMessage(m, saved) ==
    /\ ~saved => saveFailures < MaxSaveFailures
    /\ saveFailures' = IF saved THEN saveFailures ELSE saveFailures + 1
    /\ LET old == GetCache(Chan)
           new == Evict(Append(old, m), maxSize)
       IN /\ caches' = [c \in DOMAIN caches \cup {Chan} |-> IF c = Chan THEN new ELSE caches[c]]
          /\ emitted' = AddEvents(Chan, old, m, maxSize)
          /\ store' = IF saved THEN [store EXCEPT ![Chan] = new] ELSE store
          /\ appended' = [appended EXCEPT ![Chan] = Append(@, m)]
    /\ UNCHANGED <<cver, maxSize, nextId, clears>>

\* channel.messages.fetch({ limit }): the latest messages, newest first.
Latest(h, limit) == Reverse(LastN(h, Min(Len(h), limit)))

\* processMessage up to its first await, entered with the set pm of ids being
\* processed: the duplicate guard returns, or the id is added and the images
\* of the message are processed.
ProcessMessage(m, pm) ==
    IF m \in pm
        THEN [pc |-> "done", pm |-> pm \ {m}]
        ELSE [pc |-> "images", pm |-> pm \cup {m}]

\* handleMessage runs up to its first await.
HandleMessage(m, mentioned, ref) ==
    /\ hpc[m] = "new"
    /\ \A k \in Inbound : k < m => hpc[k] # "new"
    /\ history' = Append(history, m)
    /\ hmsg' = [hmsg EXCEPT ![m] = [mentioned |-> mentioned, ref |-> ref]]
    /\ IF hver = "guarded"
          THEN IF Chan \in DOMAIN caches
                  THEN LET r == ProcessMessage(m, processingMessages \cup {m})
                       IN /\ hpc' = [hpc EXCEPT ![m] = r.pc]
                          /\ processingMessages' = r.pm
                  ELSE /\ hpc' = [hpc EXCEPT ![m] = "load"]
                       /\ processingMessages' = processingMessages \cup {m}
          ELSE LET r == ProcessMessage(m, processingMessages)
               IN /\ hpc' = [hpc EXCEPT ![m] = r.pc]
                  /\ processingMessages' = r.pm
    /\ UNCHANGED <<hver, hfetched, enqueued, cacheVars>>

\* initializeCache: loadCache has settled; a cache shorter than maxSize is
\* completed from the platform, otherwise processMessage follows.
LoadCacheSettles(m, ok) ==
    /\ hpc[m] = "load"
    /\ LET loaded == IF ok THEN Hydrate(store[Chan]) ELSE << >>
       IN /\ caches' = [c \in DOMAIN caches \cup {Chan} |-> IF c = Chan THEN loaded ELSE caches[c]]
          /\ IF Len(loaded) < maxSize
                THEN /\ hpc' = [hpc EXCEPT ![m] = "history"]
                     /\ UNCHANGED processingMessages
                ELSE LET r == ProcessMessage(m, processingMessages)
                     IN /\ hpc' = [hpc EXCEPT ![m] = r.pc]
                        /\ processingMessages' = r.pm
    /\ UNCHANGED <<hver, hmsg, history, hfetched, enqueued>>
    /\ UNCHANGED <<cver, maxSize, store, emitted, nextId, clears, saveFailures, appended>>

\* initializeCache: the fetch of the historical messages has settled; a failure
\* is caught by handleMessage.
HistorySettles(m, ok) ==
    /\ hpc[m] = "history"
    /\ IF ok
          THEN /\ hfetched' = [hfetched EXCEPT ![m] = Latest(history, maxSize)]
               /\ hpc' = [hpc EXCEPT ![m] = "adding"]
               /\ UNCHANGED processingMessages
          ELSE /\ hpc' = [hpc EXCEPT ![m] = "done"]
               /\ processingMessages' = processingMessages \ {m}
               /\ UNCHANGED hfetched
    /\ UNCHANGED <<hver, hmsg, history, enqueued, cacheVars>>

\* initializeCache: the next historical message is added; after the last one
\* processMessage follows.
AddHistorical(m, saved) ==
    /\ hpc[m] = "adding"
    /\ PushMessage(Head(hfetched[m]), saved)
    /\ hfetched' = [hfetched EXCEPT ![m] = Tail(@)]
    /\ IF Len(hfetched[m]) > 1
          THEN UNCHANGED <<hpc, processingMessages>>
          ELSE LET r == ProcessMessage(m, processingMessages)
               IN /\ hpc' = [hpc EXCEPT ![m] = r.pc]
                  /\ processingMessages' = r.pm
    /\ UNCHANGED <<hver, hmsg, history, enqueued>>

\* `if (isMentioned || isReplyToBot)` with the enqueue, and the finally block.
Decide(m, interaction) ==
    /\ enqueued' = IF interaction THEN enqueued \cup {m} ELSE enqueued
    /\ hpc' = [hpc EXCEPT ![m] = "done"]
    /\ processingMessages' = processingMessages \ {m}

\* processNormalMessage: the images are processed and the message is cached;
\* a message with a reference then has its target fetched.
ImagesSettle(m, saved) ==
    /\ hpc[m] = "images"
    /\ PushMessage(m, saved)
    /\ IF hmsg[m].ref = "none"
          THEN Decide(m, hmsg[m].mentioned)
          ELSE /\ hpc' = [hpc EXCEPT ![m] = "fetch"]
               /\ UNCHANGED <<processingMessages, enqueued>>
    /\ UNCHANGED <<hver, hmsg, history, hfetched>>

\* The fetch of the referenced message has settled; a rejection is caught by
\* processMessage.
ReferenceSettles(m) ==
    /\ hpc[m] = "fetch"
    /\ IF hmsg[m].ref = "gone"
          THEN /\ hpc' = [hpc EXCEPT ![m] = "done"]
               /\ processingMessages' = processingMessages \ {m}
               /\ UNCHANGED enqueued
          ELSE Decide(m, hmsg[m].mentioned \/ hmsg[m].ref = "bot")
    /\ UNCHANGED <<hver, hmsg, history, hfetched, cacheVars>>

(***************************************************************************)
(* ChannelCacheManager.addMessage / syncAllCachesToDatabase with           *)
(* SQLiteAdapter.saveChannelCache followed statement by statement          *)
(***************************************************************************)
SyncCall == 0
FlushCalls == SyncCall..MaxFlushAppends
NoCall == -1
NoTxn == [by |-> NoCall, at |-> << >>, idx |-> 0, snaps |-> {}, quiet |-> FALSE, repeat |-> FALSE]
NoFlush == [rows |-> << >>, snaps |-> {<< >>}, repeat |-> FALSE, before |-> << >>]

FlushIdle ==
    /\ fcall = [k \in FlushCalls |-> "none"]
    /\ txn = NoTxn
    /\ syncs = 0
    /\ quiet = FALSE
    /\ flushed = NoFlush

\* DELETE FROM messages WHERE channel_id = ? AND id NOT IN (?) with the ids
\* joined into one parameter: a row survives only if that parameter is its id.
KeptRows(rows, ids) ==
    IF Len(ids) = 1 /\ \E i \in 1..Len(rows) : rows[i] = ids[1] THEN <<ids[1]>> ELSE << >>

\* INSERT OR REPLACE INTO messages
InsertRow(rows, id) ==
    IF \E i \in 1..Len(rows) : rows[i] = id THEN rows ELSE Append(rows, id)

\* saveChannelCache up to its first await: BEGIN TRANSACTION is issued.  On a
\* connection that already has a transaction open the statement is rejected.
StartSave(k, messages, repeat) ==
    IF txn.by = NoCall
        THEN /\ fcall' = [fcall EXCEPT ![k] = "ids"]
             /\ txn' = [by |-> k, at |-> store[Chan], idx |-> 0, snaps |-> {messages},
                        quiet |-> TRUE, repeat |-> repeat]
        ELSE /\ fcall' = [fcall EXCEPT ![k] = "rejected"]
             /\ UNCHANGED txn

\* addMessage up to its first await: the message is pushed, the oldest one is
\* shifted out, and in the database revision the save begins.
AddMessageStarts ==
    /\ nextId[Chan] <= MaxFlushAppends
    /\ LET m == nextId[Chan]
           old == GetCache(Chan)
           new == Evict(Append(old, m), maxSize)
       IN /\ caches' = [c \in DOMAIN caches \cup {Chan} |-> IF c = Chan THEN new ELSE caches[c]]
          /\ emitted' = AddEvents(Chan, old, m, maxSize)
          /\ appended' = [appended EXCEPT ![Chan] = Append(@, m)]
          /\ nextId' = [nextId EXCEPT ![Chan] = @ + 1]
          /\ quiet' = FALSE
          /\ IF cver = "memory"
                THEN /\ fcall' = [fcall EXCEPT ![m] = "done"]
                     /\ UNCHANGED txn
                ELSE IF txn.by = NoCall
                        THEN StartSave(m, new, FALSE)
                        ELSE /\ fcall' = [fcall EXCEPT ![m] = "rejected"]
                             /\ txn' = [txn EXCEPT !.snaps = @ \cup {new}, !.quiet = FALSE]
    /\ UNCHANGED <<cver, maxSize, store, clears, saveFailures, syncs, flushed>>

\* The periodic sync reaches the channel and starts its save.
SyncStarts ==
    /\ cver = "database"
    /\ Chan \in DOMAIN caches
    /\ fcall[SyncCall] \in {"none", "done"}
    /\ syncs < MaxSyncs
    /\ syncs' = syncs + 1
    /\ StartSave(SyncCall, caches[Chan], quiet)
    /\ UNCHANGED <<cacheVars, quiet, flushed>>

\* BEGIN has resolved: the ids of the cache are collected and DELETE is issued.
DeleteIssued(k) ==
    /\ fcall[k] = "ids"
    /\ store' = [store EXCEPT ![Chan] = KeptRows(@, GetCache(Chan))]
    /\ txn' = [txn EXCEPT !.idx = 1]
    /\ fcall' = [fcall EXCEPT ![k] = "insert"]
    /\ UNCHANGED <<cver, maxSize, caches, emitted, nextId, clears, saveFailures, appended>>
    /\ UNCHANGED <<syncs, quiet, flushed>>

\* The loop over cache.messages: the next message is inserted, or the loop has
\* reached the end of the array and COMMIT is issued.
InsertIssued(k) ==
    /\ fcall[k] = "insert"
    /\ IF txn.idx <= Len(GetCache(Chan))
          THEN /\ store' = [store EXCEPT ![Chan] = InsertRow(@, GetCache(Chan)[txn.idx])]
               /\ txn' = [txn EXCEPT !.idx = @ + 1]
               /\ UNCHANGED <<fcall, quiet, flushed>>
          ELSE /\ fcall' = [fcall EXCEPT ![k] = "committed"]
               /\ flushed' = [rows |-> store[Chan], snaps |-> txn.snaps,
                              repeat |-> txn.repeat /\ txn.quiet, before |-> flushed.rows]
               /\ quiet' = txn.quiet
               /\ txn' = NoTxn
               /\ UNCHANGED store
    /\ UNCHANGED <<cver, maxSize, caches, emitted, nextId, clears, saveFailures, appended, syncs>>

\* A statement of the transaction fails: ROLLBACK, and the error is rethrown.
SaveFails(k) ==
    /\ fcall[k] \in {"ids", "insert"}
    /\ saveFailures < MaxSaveFailures
    /\ saveFailures' = saveFailures + 1
    /\ store' = [store EXCEPT ![Chan] = txn.at]
    /\ txn' = NoTxn
    /\ fcall' = [fcall EXCEPT ![k] = "rejected"]
    /\ UNCHANGED <<cver, maxSize, caches, emitted, nextId, clears, appended>>
    /\ UNCHANGED <<syncs, quiet, flushed>>

\* saveChannelCache has settled: its caller logs a rejection and completes.
SaveSettles(k) ==
    /\ fcall[k] \in {"committed", "rejected"}
    /\ fcall' = [fcall EXCEPT ![k] = "done"]
    /\ UNCHANGED <<cacheVars, txn, syncs, quiet, flushed>>

(***************************************************************************)
(* MessageHandler.initializeCache, the revision that completes the cache   *)
(* of a channel each time the bot is addressed                             *)
(***************************************************************************)
CompleteIdle == ipc = "idle" /\ completions = 0

\* A message older than every cached one, as the platform returns it for
\* `before: oldestMessage.id`; it replies to nothing.
OlderMessage(n) == [id |-> RemoteId + n, ts |-> 1, ref |-> 0]

\* initializeCache up to its first await: a full cache returns at once;
\* otherwise the oldest message is looked up with cache.messages.sort(...)[0],
\* which sorts the array of the cache in place, and older messages are fetched.
InitializeCacheStarts ==
    /\ ipc = "idle"
    /\ completions < MaxCompletions
    /\ Len(ccache) < maxSize
    /\ ccache' = SortByTimestamp(ccache)
    /\ ipc' = "fetch"
    /\ completions' = completions + 1
    /\ UNCHANGED <<bver, cur, contextSize, excludeCurrent, bpc, recent, bi, out, fetches>>

\* The fetch has settled with no message or with one older message, which is
\* added to the cache; a rejection ends initializeCache.
OlderFetchSettles(found) ==
    /\ ipc = "fetch"
    /\ ipc' = "idle"
    /\ ccache' = IF found THEN Evict(Append(ccache, OlderMessage(completions)), maxSize) ELSE ccache
    /\ UNCHANGED <<completions, bver, cur, contextSize, excludeCurrent, bpc, recent, bi, out, fetches>>

(***************************************************************************)
(* Specifications                                                          *)
(***************************************************************************)
Init == CacheIdle /\ now = 0 /\ LimiterIdle /\ QueueIdle /\ RouterIdle /\ ContextIdle /\ BucketIdle /\ MentionIdle /\ InboundIdle /\ FlushIdle /\ CompleteIdle

CacheNext ==
    \/ \E ch \in Channels, saved \in BOOLEAN : AddMessage(ch, saved) /\ UNCHANGED <<completeVars, flushVars, inboundVars, now, limVars, queueVars, routerVars, ctxVars, bucketVars, mentionVars>>
    \/ \E ch \in Channels : ClearCache(ch) /\ UNCHANGED <<completeVars, flushVars, inboundVars, now, limVars, queueVars, routerVars, ctxVars, bucketVars, mentionVars>>

CacheStart == CacheInit /\ now = 0 /\ LimiterIdle /\ QueueIdle /\ RouterIdle /\ ContextIdle /\ BucketIdle /\ MentionIdle /\ InboundIdle /\ FlushIdle /\ CompleteIdle
CacheSpec == CacheStart /\ [][CacheNext]_vars

\* The cache with its database across restarts of the process.
HydrateNext ==
    \/ Appends < MaxStoredAppends /\ CacheNext
    \/ Restart /\ UNCHANGED <<completeVars, flushVars, inboundVars, now, limVars, queueVars, routerVars, ctxVars, bucketVars, mentionVars>>
    \/ \E ch \in Channels, ok \in BOOLEAN :
          LoadCache(ch, ok) /\ UNCHANGED <<completeVars, flushVars, inboundVars, now, limVars, queueVars, routerVars, ctxVars, bucketVars, mentionVars>>

\* Small capacities: the caches fill up, are saved and are loaded again.
HydrateStart == CacheStart /\ cver = "database" /\ maxSize < DefaultMaxSize
HydrateSpec == HydrateStart /\ [][HydrateNext]_vars

LimiterNext ==
    \/ \E c \in Callers : WaitForToken(c) /\ UNCHANGED <<completeVars, flushVars, inboundVars, cacheVars, queueVars, routerVars, ctxVars, bucketVars, mentionVars>>
    \/ DrainWake /\ UNCHANGED <<completeVars, flushVars, inboundVars, cacheVars, queueVars, routerVars, ctxVars, bucketVars, mentionVars>>
    \/ \E d \in TimeSteps : Tick(d) /\ UNCHANGED <<completeVars, flushVars, inboundVars, cacheVars, limVars, queueVars, routerVars, ctxVars, bucketVars, mentionVars>>

LimiterStart == CacheIdle /\ now = 0 /\ LimiterInit /\ QueueIdle /\ RouterIdle /\ ContextIdle /\ BucketIdle /\ MentionIdle /\ InboundIdle /\ FlushIdle /\ CompleteIdle
LimiterSpec == LimiterStart /\ [][LimiterNext]_vars

QueueNext ==
    \/ \E p \in Priorities : Enqueue(p) /\ UNCHANGED <<completeVars, flushVars, inboundVars, cacheVars, now, limVars, routerVars, ctxVars, bucketVars, mentionVars>>
    \/ \E lp \in loops : LimitedAfterStatus(lp) /\ UNCHANGED <<completeVars, flushVars, inboundVars, cacheVars, now, limVars, routerVars, ctxVars, bucketVars, mentionVars>>
    \/ \E lp \in loops, o \in {"ok", "rateLimit", "error"} :
          LimitedMainDone(lp, o) /\ UNCHANGED <<completeVars, flushVars, inboundVars, cacheVars, now, limVars, routerVars, ctxVars, bucketVars, mentionVars>>
    \/ \E lp \in loops, ok \in BOOLEAN : LimitedFallbackDone(lp, ok) /\ UNCHANGED <<completeVars, flushVars, inboundVars, cacheVars, now, limVars, routerVars, ctxVars, bucketVars, mentionVars>>
    \/ \E lp \in loops, ok \in BOOLEAN : LimitedInstantDone(lp, ok) /\ UNCHANGED <<completeVars, flushVars, inboundVars, cacheVars, now, limVars, routerVars, ctxVars, bucketVars, mentionVars>>
    \/ \E lp \in loops : LimitedDelayDone(lp) /\ UNCHANGED <<completeVars, flushVars, inboundVars, cacheVars, now, limVars, routerVars, ctxVars, bucketVars, mentionVars>>
    \/ \E j \in Jobs, ok \in BOOLEAN : ConcurrentJobDone(j, ok) /\ UNCHANGED <<completeVars, flushVars, inboundVars, cacheVars, now, limVars, routerVars, ctxVars, bucketVars, mentionVars>>
    \/ \E lp \in loops : ConcurrentDelayDone(lp) /\ UNCHANGED <<completeVars, flushVars, inboundVars, cacheVars, now, limVars, routerVars, ctxVars, bucketVars, mentionVars>>
    \/ \E lp \in loops : SerialTypingDone(lp) /\ UNCHANGED <<completeVars, flushVars, inboundVars, cacheVars, now, limVars, routerVars, ctxVars, bucketVars, mentionVars>>
    \/ \E lp \in loops, ok \in BOOLEAN : SerialJobDone(lp, ok) /\ UNCHANGED <<completeVars, flushVars, inboundVars, cacheVars, now, limVars, routerVars, ctxVars, bucketVars, mentionVars>>
    \/ \E lp \in loops : SerialDelayDone(lp) /\ UNCHANGED <<completeVars, flushVars, inboundVars, cacheVars, now, limVars, routerVars, ctxVars, bucketVars, mentionVars>>
    \/ QueueTick /\ UNCHANGED <<completeVars, flushVars, inboundVars, cacheVars, limVars, queueVars, routerVars, ctxVars, bucketVars, mentionVars>>

QueueStart == CacheIdle /\ now = 0 /\ LimiterIdle /\ QueueInit /\ RouterIdle /\ ContextIdle /\ BucketIdle /\ MentionIdle /\ InboundIdle /\ FlushIdle /\ CompleteIdle
QueueSpec == QueueStart /\ [][QueueNext]_vars

\* The flags of process.env are whatever the scheduler or the operator left there.
RouterEnv ==
    /\ env \in [fallback : BOOLEAN, instant : BOOLEAN]
    /\ qver = "limited"
    /\ maxConcurrent = 1
    /\ queue = << >>
    /\ processing = 0
    /\ loops = {}
    /\ job = [j \in Jobs |-> NewJob]
    /\ ran = << >>
    /\ qlim = [count |-> 0, start |-> 0]

RouterNext ==
    \/ GenerateResponse /\ UNCHANGED <<completeVars, flushVars, inboundVars, cacheVars, now, limVars, queueVars, reply, ctxVars, bucketVars, mentionVars>>
    \/ \E g \in BOOLEAN : TokenSettles(g) /\ UNCHANGED <<completeVars, flushVars, inboundVars, cacheVars, now, limVars, queueVars, ctxVars, bucketVars, mentionVars>>
    \/ CallSettles /\ UNCHANGED <<completeVars, flushVars, inboundVars, cacheVars, now, limVars, queueVars, ctxVars, bucketVars, mentionVars>>
    \/ BackoffDone /\ UNCHANGED <<completeVars, flushVars, inboundVars, cacheVars, now, limVars, queueVars, ctxVars, bucketVars, mentionVars>>
    \/ GenerateResponseSettles /\ UNCHANGED <<completeVars, flushVars, inboundVars, cacheVars, now, limVars, queueVars, ctxVars, bucketVars, mentionVars>>
    \/ \E t \in {"primary", "fallback", "instantFallback"}, k \in {"ok", "capacity", "error"} :
          ProviderChanges(t, k) /\ UNCHANGED <<completeVars, flushVars, inboundVars, cacheVars, now, limVars, queueVars, ctxVars, bucketVars, mentionVars>>

RouterStart == CacheIdle /\ now = 0 /\ LimiterIdle /\ RouterEnv /\ RouterInit /\ ContextIdle /\ BucketIdle /\ MentionIdle /\ InboundIdle /\ FlushIdle /\ CompleteIdle
RouterSpec == RouterStart /\ [][RouterNext]_vars

ContextNext ==
    \/ BuildContext /\ UNCHANGED <<completeVars, flushVars, inboundVars, cacheVars, now, limVars, queueVars, routerVars, bucketVars, mentionVars>>
    \/ FormatMessage /\ UNCHANGED <<completeVars, flushVars, inboundVars, cacheVars, now, limVars, queueVars, routerVars, bucketVars, mentionVars>>
    \/ \E ok \in BOOLEAN, ts \in Timestamps :
          FetchSettles(ok, ts) /\ UNCHANGED <<completeVars, flushVars, inboundVars, cacheVars, now, limVars, queueVars, routerVars, bucketVars, mentionVars>>

ContextStart == CacheIdle /\ now = 0 /\ LimiterIdle /\ QueueIdle /\ RouterIdle /\ ContextInit /\ BucketIdle /\ MentionIdle /\ InboundIdle /\ FlushIdle /\ CompleteIdle
ContextSpec == ContextStart /\ [][ContextNext]_vars

BucketNext ==
    \/ \E c \in Callers : BucketWaitForToken(c)
          /\ UNCHANGED <<completeVars, flushVars, inboundVars, cacheVars, now, limVars, queueVars, routerVars, ctxVars, mentionVars>>
    \/ BucketWake /\ UNCHANGED <<completeVars, flushVars, inboundVars, cacheVars, now, limVars, queueVars, routerVars, ctxVars, mentionVars>>
    \/ \E d \in TimeSteps : Tick(d)
          /\ UNCHANGED <<completeVars, flushVars, inboundVars, cacheVars, limVars, queueVars, routerVars, ctxVars, bucketVars, mentionVars>>

\* Either limiter, whichever the program is built with.
TimeoutNext == (lver = "window" /\ LimiterNext) \/ (lver = "bucket" /\ BucketNext)
TimeoutStart ==
    /\ CacheIdle /\ now = 0 /\ QueueIdle /\ RouterIdle /\ ContextIdle /\ MentionIdle /\ InboundIdle /\ FlushIdle /\ CompleteIdle
    \* a limit of one request per window makes waiters queue for the longest time
    /\ \/ LimiterInit /\ maxRequestsPerMinute = 1 /\ BucketIdle
       \/ LimiterIdle /\ BucketInit /\ options.maxTokens = 1
TimeoutSpec == TimeoutStart /\ [][TimeoutNext]_vars

MentionNext ==
    \/ \E run \in {"main", "fallback"} : HandleMention(run)
          /\ UNCHANGED <<completeVars, flushVars, inboundVars, cacheVars, now, limVars, queueVars, routerVars, ctxVars, bucketVars>>
    \/ \E ok \in BOOLEAN : BuildContextSettles(ok)
          /\ UNCHANGED <<completeVars, flushVars, inboundVars, cacheVars, now, limVars, queueVars, routerVars, ctxVars, bucketVars>>
    \/ AnalysisSettles
          /\ UNCHANGED <<completeVars, flushVars, inboundVars, cacheVars, now, limVars, queueVars, routerVars, ctxVars, bucketVars>>
    \/ \E granted \in BOOLEAN : GenerationTokenSettles(granted)
          /\ UNCHANGED <<completeVars, flushVars, inboundVars, cacheVars, now, limVars, queueVars, routerVars, ctxVars, bucketVars>>
    \/ \E ok \in BOOLEAN : GenerationSettles(ok)
          /\ UNCHANGED <<completeVars, flushVars, inboundVars, cacheVars, now, limVars, queueVars, routerVars, ctxVars, bucketVars>>
    \/ \E exits \in BOOLEAN : TimeoutFires(exits)
          /\ UNCHANGED <<completeVars, flushVars, inboundVars, cacheVars, now, limVars, queueVars, routerVars, ctxVars, bucketVars>>
    \/ \E ok \in BOOLEAN : ReplySettles(ok)
          /\ UNCHANGED <<completeVars, flushVars, inboundVars, cacheVars, now, limVars, queueVars, routerVars, ctxVars, bucketVars>>
    \/ ResponseCached
          /\ UNCHANGED <<completeVars, flushVars, inboundVars, cacheVars, now, limVars, queueVars, routerVars, ctxVars, bucketVars>>
    \/ \E ok \in BOOLEAN, rateLimit \in BOOLEAN : ApologySettles(ok, rateLimit)
          /\ UNCHANGED <<completeVars, flushVars, inboundVars, cacheVars, now, limVars, queueVars, routerVars, ctxVars, bucketVars>>
    \/ ProcessFallback
          /\ UNCHANGED <<completeVars, flushVars, inboundVars, cacheVars, now, limVars, queueVars, routerVars, ctxVars, bucketVars>>
    \/ JobFails
          /\ UNCHANGED <<completeVars, flushVars, inboundVars, cacheVars, now, limVars, queueVars, routerVars, ctxVars, bucketVars>>

MentionStart ==
    /\ CacheIdle /\ now = 0 /\ LimiterIdle /\ QueueIdle /\ RouterIdle /\ ContextIdle /\ BucketIdle /\ InboundIdle /\ FlushIdle /\ CompleteIdle
    /\ MentionInit
MentionSpec == MentionStart /\ [][MentionNext]_vars

InboundNext ==
    \/ \E m \in Inbound, mentioned \in BOOLEAN, ref \in References :
          HandleMessage(m, mentioned, ref) /\ UNCHANGED <<now, limVars, queueVars, routerVars, ctxVars, bucketVars, mentionVars, flushVars, completeVars>>
    \/ \E m \in Inbound, ok \in BOOLEAN :
          LoadCacheSettles(m, ok) /\ UNCHANGED <<now, limVars, queueVars, routerVars, ctxVars, bucketVars, mentionVars, flushVars, completeVars>>
    \/ \E m \in Inbound, ok \in BOOLEAN :
          HistorySettles(m, ok) /\ UNCHANGED <<now, limVars, queueVars, routerVars, ctxVars, bucketVars, mentionVars, flushVars, completeVars>>
    \/ \E m \in Inbound, saved \in BOOLEAN :
          AddHistorical(m, saved) /\ UNCHANGED <<now, limVars, queueVars, routerVars, ctxVars, bucketVars, mentionVars, flushVars, completeVars>>
    \/ \E m \in Inbound, saved \in BOOLEAN :
          ImagesSettle(m, saved) /\ UNCHANGED <<now, limVars, queueVars, routerVars, ctxVars, bucketVars, mentionVars, flushVars, completeVars>>
    \/ \E m \in Inbound :
          ReferenceSettles(m) /\ UNCHANGED <<now, limVars, queueVars, routerVars, ctxVars, bucketVars, mentionVars, flushVars, completeVars>>

InboundStart ==
    /\ now = 0 /\ LimiterIdle /\ QueueIdle /\ RouterIdle /\ ContextIdle /\ BucketIdle /\ MentionIdle /\ FlushIdle /\ CompleteIdle
    /\ InboundInit
InboundSpec == InboundStart /\ [][InboundNext]_vars

FlushFrame == UNCHANGED <<now, limVars, queueVars, routerVars, ctxVars, bucketVars, mentionVars, inboundVars, completeVars>>

FlushNext ==
    \/ AddMessageStarts /\ FlushFrame
    \/ SyncStarts /\ FlushFrame
    \/ \E k \in FlushCalls : DeleteIssued(k) /\ FlushFrame
    \/ \E k \in FlushCalls : InsertIssued(k) /\ FlushFrame
    \/ \E k \in FlushCalls : SaveFails(k) /\ FlushFrame
    \/ \E k \in FlushCalls : SaveSettles(k) /\ FlushFrame

FlushStart ==
    /\ CacheInit /\ now = 0 /\ LimiterIdle /\ QueueIdle /\ RouterIdle /\ ContextIdle /\ BucketIdle
    /\ MentionIdle /\ InboundIdle /\ FlushIdle /\ CompleteIdle
FlushSpec == FlushStart /\ [][FlushNext]_vars

CompletionFrame == UNCHANGED <<cacheVars, now, limVars, queueVars, routerVars, bucketVars, mentionVars, inboundVars, flushVars>>

\* buildContext interleaved with the runs of initializeCache on the same cache.
CompletionNext ==
    \/ ContextNext
    \/ InitializeCacheStarts /\ CompletionFrame
    \/ \E found \in BOOLEAN : OlderFetchSettles(found) /\ CompletionFrame

CompletionStart == ContextStart /\ bver = "sorted" /\ contextSize = MentionContextSize
CompletionSpec == CompletionStart /\ [][CompletionNext]_vars

\* The scheduler with its timers always firing: the jobs are finitely many, so
\* are the timers they set.
QueueLiveNext ==
    \/ QueueNext
    \/ TimerDue /\ UNCHANGED <<completeVars, flushVars, inboundVars, cacheVars, limVars, queueVars, routerVars, ctxVars, bucketVars, mentionVars>>

\* A step of the scheduler other than a call of enqueue: a job, a delay or the
\* wait for the limiter's status settles, or time passes to the next timer.
QueueProgress == QueueLiveNext /\ \A j \in Jobs : job[j].status = "new" => job'[j].status = "new"

\* Job functions terminate and timers fire.
QueueFairSpec == QueueStart /\ [][QueueLiveNext]_vars /\ WF_vars(QueueProgress)

\* The timer the sleeping loop of processQueue waits for.
LoopTimer == IF lver = "bucket" THEN bucketTimer ELSE drainTimer

\* A caller calls waitForToken of the limiter in use.
LimiterCall(c) ==
    \/ lver = "window" /\ WaitForToken(c) /\ UNCHANGED <<completeVars, flushVars, inboundVars, cacheVars, queueVars, routerVars, ctxVars, bucketVars, mentionVars>>
    \/ lver = "bucket" /\ BucketWaitForToken(c) /\ UNCHANGED <<completeVars, flushVars, inboundVars, cacheVars, now, limVars, queueVars, routerVars, ctxVars, mentionVars>>

\* The sleeping loop's setTimeout callback runs.
LoopWakes ==
    \/ lver = "window" /\ DrainWake /\ UNCHANGED <<completeVars, flushVars, inboundVars, cacheVars, queueVars, routerVars, ctxVars, bucketVars, mentionVars>>
    \/ lver = "bucket" /\ BucketWake /\ UNCHANGED <<completeVars, flushVars, inboundVars, cacheVars, now, limVars, queueVars, routerVars, ctxVars, mentionVars>>

\* Time passes until the sleeping loop's timer is due.
LoopTimerDue ==
    /\ LoopTimer # NoTimer /\ LoopTimer > now
    /\ now' = LoopTimer
    /\ UNCHANGED <<completeVars, flushVars, inboundVars, cacheVars, limVars, queueVars, routerVars, ctxVars, bucketVars, mentionVars>>

\* The callers that take part while the limiter is followed until it has drained.
DrainCallers == {"a", "b"}

\* Either limiter with callers that stop calling after MaxCallWindows windows:
\* the waiters are then finitely many and time passes as long as one is left.
DrainNext ==
    \/ \E c \in DrainCallers : now <= MaxCallWindows * WindowMs /\ LimiterCall(c)
    \/ LoopWakes
    \/ \E d \in TimeSteps : Tick(d) /\ UNCHANGED <<completeVars, flushVars, inboundVars, cacheVars, limVars, queueVars, routerVars, ctxVars, bucketVars, mentionVars>>
    \/ LoopTimerDue

\* Time advances to the next timer and the event loop runs the callback due.
DrainFairSpec == TimeoutStart /\ [][DrainNext]_vars /\ WF_vars(LoopTimerDue) /\ WF_vars(LoopWakes)

Next == CacheNext \/ LimiterNext \/ QueueNext \/ RouterNext \/ ContextNext \/ BucketNext \/ MentionNext \/ InboundNext \/ FlushNext
Spec == Init /\ [][Next]_vars

(***************************************************************************)
(* C1: after any sequence of appends of distinct messages to an initially  *)
(* empty channel with capacity N, the cache holds exactly the last          *)
(* min(k, N) appended messages in append order; its length never exceeds N *)
(* and the entry evicted is the earliest-inserted one.                     *)
(***************************************************************************)
CacheHoldsLastN ==
    \A ch \in DOMAIN caches :
        /\ Len(caches[ch]) <= maxSize
        /\ caches[ch] = LastN(appended[ch], Min(Len(appended[ch]), maxSize))
        /\ \A i \in 1..Len(emitted) :
              (emitted[i].type = "messageRemoved" /\ emitted[i].channel = ch)
                  => emitted[i].msg = appended[ch][Len(appended[ch]) - maxSize]

\* N = 20 and m1..m25 appended: the cache is m6..m25.
CacheAfter25 ==
    /\ maxSize = DefaultMaxSize
    /\ "c1" \in DOMAIN caches
    /\ appended["c1"] = [i \in 1..25 |-> i]
    /\ caches["c1"] = [i \in 1..20 |-> i + 5]

Leaves(j) == job[j].status \in {"new", "queued"} /\ job'[j].status \notin {"new", "queued"}

AdmittedByPriorityThenFifo ==
    [][\A j \in Jobs : Leaves(j) =>
          \A i \in 1..Len(queue') :
              \/ queue'[i].priority < job'[j].priority
              \/ queue'[i].priority = job'[j].priority /\ j < queue'[i].job]_vars

(***************************************************************************)
(* C4: with concurrency budget 1, jobs enqueued with priorities 1, 5, 1    *)
(* run in the order: the priority-5 job, then the two priority-1 jobs in   *)
(* enqueue order.                                                          *)
(***************************************************************************)
Enqueued151 ==
    /\ maxConcurrent = 1
    /\ MaxJobs >= 3
    /\ \A j \in Jobs : job[j].status # "new" <=> j <= 3
    /\ <<job[1].priority, job[2].priority, job[3].priority>> = <<1, 5, 1>>

RunOrder151ByPriority ==
    (Enqueued151 /\ Len(ran) >= 3) => SubSeq(ran, 1, 3) = <<2, 1, 3>>

\* C4 as amended: the first job is admitted when it is enqueued (the scheduler
\* is idle), so the jobs run in enqueue order: 1, then 5, then 1.
RunOrder151ByArrival ==
    Enqueued151 => \A i \in 1..Min(Len(ran), 3) : ran[i] = i

RunOrder151Done ==
    /\ Enqueued151
    /\ qver = "limited"
    /\ \A j \in 1..3 : job[j].status \in {"completed", "failed"}

(***************************************************************************)
(* C5: with concurrency budget 1, of two enqueued jobs of equal priority   *)
(* the one enqueued first has run to completion (resolved or thrown)       *)
(* before the function of the other is started.                            *)
(***************************************************************************)
Settled(j) == job[j].status \in {"completed", "failed"}

EqualPriorityRunsSerially ==
    maxConcurrent = 1 =>
        \A j1, j2 \in Jobs :
            (j1 < j2 /\ job[j1].priority = job[j2].priority /\ job[j2].runs > 0) => Settled(j1)

\* The second of two equal-priority jobs is running, having waited in the queue.
SecondRunsAfterFirst ==
    /\ maxConcurrent = 1
    /\ job[1].priority = job[2].priority
    /\ Settled(1)
    /\ job[2].status = "running"
    /\ Len(queue) > 0

(***************************************************************************)
(* C6: the number of running jobs (the processing counter) is at least 0   *)
(* and at most maxConcurrent in every reachable state.                     *)
(***************************************************************************)
InFlight == {j \in Jobs : job[j].status \in {"admitted", "running"}}

ProcessingWithinBudget ==
    /\ Cardinality(InFlight) <= maxConcurrent
    /\ qver # "serial" =>
          /\ processing >= 0
          /\ processing <= maxConcurrent
          /\ processing = Cardinality(InFlight)
    /\ qver = "serial" => (processing <=> loops # {})

BudgetReached ==
    /\ qver # "serial"
    /\ maxConcurrent = 2
    /\ processing = 2
    /\ Len(queue) > 0

(***************************************************************************)
(* C7: executeWithFallback tries the tiers in the order primary, fallback, *)
(* instantFallback; a later tier is invoked only after every earlier tier  *)
(* has failed; it returns on the first successful call and invokes no      *)
(* further tier.                                                           *)
(***************************************************************************)
Invoked == {i \in 1..Len(calls) : calls[i].invoked}

TiersTriedInOrder ==
    /\ \A i, j \in 1..Len(calls) : i < j => TierRank(calls[i].tier) <= TierRank(calls[j].tier)
    /\ \A j \in Invoked : \A r \in 1..(TierRank(calls[j].tier) - 1) :
          \E i \in 1..(j - 1) : TierRank(calls[i].tier) = r /\ calls[i].kind # "ok"
    /\ \A i \in 1..(Len(calls) - 1) : calls[i].kind # "ok"
    /\ rpc = "returned" => calls[Len(calls)].kind = "ok"

(***************************************************************************)
(* C8: if the primary tier always fails with a capacity error and the      *)
(* fallback tier succeeds, generateResponse succeeds using the fallback    *)
(* tier, without a delay and without retrying the primary tier.            *)
(***************************************************************************)
PrimaryAtCapacity ==
    /\ changes = 0
    /\ health["primary"] = "capacity"
    /\ health["fallback"] = "ok"
    /\ \A i \in 1..Len(calls) : calls[i].invoked

CapacityFallsBackAtOnce ==
    (PrimaryAtCapacity /\ rpc = "done") =>
        /\ reply = "generated"
        /\ calls[Len(calls)] = [tier |-> "fallback", kind |-> "ok", invoked |-> TRUE]
        /\ delays = 0
        /\ Cardinality({i \in Invoked : calls[i].tier = "primary"}) = 1

(***************************************************************************)
(* C9: after a provider call failed with an error that is not a capacity   *)
(* error, the same tier is retried up to maxRetries attempts before the    *)
(* router moves to the next tier or gives up.                              *)
(***************************************************************************)
AttemptsOn(t, n) == Cardinality({i \in 1..n : calls[i].tier = t})

RetriesBeforeSwitch ==
    \A i \in Invoked :
        (calls[i].kind = "error" /\ (i < Len(calls) \/ rpc \in {"thrown", "done"})) =>
            \/ i < Len(calls) /\ calls[i + 1].tier = calls[i].tier
            \/ AttemptsOn(calls[i].tier, i) >= maxRetries

(***************************************************************************)
(* C10: when every tier (and retry) fails, executeWithFallback ends after  *)
(* a bounded number of provider calls and throws the last error it met;    *)
(* generateResponse turns that into a returned fallback text and never     *)
(* throws.                                                                 *)
(***************************************************************************)
CallBudget == IF rver = "retry" THEN 2 * maxRetries ELSE Len(Tiers)

FailsWithLastError ==
    /\ Cardinality(Invoked) <= CallBudget
    /\ Len(calls) <= CallBudget
    /\ thrown # NoError =>
          /\ rpc \in {"thrown", "done"}
          /\ thrown.at = Len(calls)
          /\ thrown.kind = calls[Len(calls)].kind
          /\ \A i \in 1..Len(calls) : calls[i].kind # "ok"
    /\ rpc = "thrown" => thrown # NoError
    /\ rpc = "done" => reply = (IF thrown # NoError THEN "apology" ELSE "generated")
    /\ rpc # "done" => reply = "none"

\* Several attempts failed with different errors and the caller got the apology.
AllTiersFailed ==
    /\ rpc = "done"
    /\ reply = "apology"
    /\ Len(calls) >= 2
    /\ calls[1].kind # calls[Len(calls)].kind

(***************************************************************************)
(* C11: buildContext (the sorting revision) renders the cached entries in  *)
(* ascending timestamp order, entries with equal timestamps in insertion   *)
(* order, and renders only entries among the last contextSize of the       *)
(* sorted sequence.                                                        *)
(***************************************************************************)
Cached(id) == \E i \in 1..Len(ccache) : ccache[i].id = id
PlaceOf(id) == CHOOSE i \in 1..Len(ccache) : ccache[i].id = id

\* The cached message a sorts after the cached message b.
SortsAfter(a, b) ==
    \/ ccache[PlaceOf(a)].ts > ccache[PlaceOf(b)].ts
    \/ ccache[PlaceOf(a)].ts = ccache[PlaceOf(b)].ts /\ PlaceOf(a) > PlaceOf(b)

\* The rendered entries at the places I are ascending and lie in the window.
AscendingInWindow(I) ==
    /\ \A i, j \in I : i < j => SortsAfter(out[j].id, out[i].id)
    /\ \A i \in I :
          contextSize > 0 =>
              Cardinality({k \in 1..Len(ccache) : SortsAfter(ccache[k].id, out[i].id)}) < contextSize

RendersAscending ==
    (bver = "sorted" /\ bpc = "done") =>
        AscendingInWindow({i \in 1..Len(out) : Cached(out[i].id)})

\* C11 as amended: the current message, when it is given and not excluded, is
\* taken out of the sorted window and rendered last; the other cached entries
\* are ascending and lie in the window.
RendersOthersAscending ==
    (bver = "sorted" /\ bpc = "done") =>
        AscendingInWindow({i \in 1..Len(out) :
            Cached(out[i].id) /\ (excludeCurrent \/ out[i].id # cur.id)})

\* Three cached messages inserted out of timestamp order, a window of two,
\* a current message that is rendered too.
RenderedOutOfOrderCache ==
    /\ bver = "sorted" /\ bpc = "done"
    /\ Len(ccache) = 3 /\ contextSize = 2
    /\ ccache[2].ts > ccache[3].ts
    /\ cur # NoMessage /\ ~excludeCurrent
    /\ Len(out) = 3
    /\ out[1].id = 3 /\ out[2].id = 2

(***************************************************************************)
(* C12: an entry whose reply target is not cached and whose fetch from the *)
(* platform fails is rendered with the "unavailable" marker, never as if   *)
(* it were not a reply; buildContext goes on to its end.                   *)
(***************************************************************************)
FailedFetchRendersUnavailable ==
    \A k \in 1..Len(fetches) :
        ~fetches[k].ok =>
            /\ Len(out) >= fetches[k].at
            /\ out[fetches[k].at].kind = "unavailable"

(***************************************************************************)
(* C13: an append to a channel that holds N messages emits exactly one     *)
(* messageRemoved event, carrying the message that was at the head; an     *)
(* append to a channel that holds fewer emits none; the events of an       *)
(* append name exactly the messages that append evicted.                   *)
(***************************************************************************)
Range(s) == {s[i] : i \in 1..Len(s)}
Removals(ev, ch) == {i \in 1..Len(ev) : ev[i].type = "messageRemoved" /\ ev[i].channel = ch}

EvictionNotifiedOnce ==
    [][\A ch \in Channels :
          nextId'[ch] # nextId[ch] =>
              LET before == GetCache(ch)
                  after == caches'[ch]
                  evicted == Range(before) \ Range(after)
              IN /\ Len(before) = maxSize =>
                       /\ Cardinality(Removals(emitted', ch)) = 1
                       /\ \A i \in Removals(emitted', ch) : emitted'[i].msg = Head(before)
                 /\ Len(before) < maxSize => Removals(emitted', ch) = {}
                 /\ {emitted'[i].msg : i \in Removals(emitted', ch)} = evicted
                 /\ \A c \in Channels \ {ch} : Removals(emitted', c) = {}]_vars

\* An append to a full channel of two has just evicted the head.
EvictionJustNotified ==
    /\ maxSize = 2
    /\ Len(emitted) = 2
    /\ emitted[2] = [type |-> "messageRemoved", channel |-> "c1", msg |-> 1]
    /\ caches["c1"] = <<2, 3>>

(***************************************************************************)
(* C14: the limiter admits in strict FIFO order: no call is admitted while *)
(* a caller that called earlier is still waiting in the queue, also when   *)
(* the call arrives after a rollover and before the drain loop has woken.  *)
(***************************************************************************)
Waiting(d) == req[d].status = "pending" /\ req[d].queued

NoJumping ==
    \A c, d \in Callers :
        ~(Waiting(d) /\ req[c].status = "resolved" /\ req[c].callAt > req[d].callAt)

(***************************************************************************)
(* C15: a waiter that has been queued for longer than the ceiling of five  *)
(* minutes is never granted a token: it is rejected. Every waiter is       *)
(* settled once, resolved or rejected, and leaves the queue when it is; a  *)
(* rejection consumes no token and the limiter does not try the waiter     *)
(* again.                                                                  *)
(***************************************************************************)
WaiterOf(c) == IF lver = "bucket" THEN breq[c] ELSE req[c]
WaiterThen(c) == IF lver = "bucket" THEN breq'[c] ELSE req'[c]
WaitQueue == IF lver = "bucket" THEN bucketQueue ELSE requestQueue
WaitQueueThen == IF lver = "bucket" THEN bucketQueue' ELSE requestQueue'
Draining == IF lver = "bucket" THEN bucketBusy ELSE processingQueue
EntriesOf(c) == {i \in 1..Len(WaitQueue) : WaitQueue[i].caller = c}
GrantedNow == {c \in Callers : WaiterOf(c).status = "pending" /\ WaiterThen(c).status = "resolved"}
RejectedNow == {c \in Callers : WaiterOf(c).status = "pending" /\ WaiterThen(c).status = "rejected"}
\* The tokens a step of the sleeping loop has taken.
TokensTaken ==
    IF lver = "bucket"
        THEN RefillTokens(BucketState, now).tokens - tokens'
        ELSE requestsThisMinute' - CheckMinuteReset(LimState, now).count

WaitersSettled ==
    \A c \in Callers :
        LET w == WaiterOf(c)
        IN /\ w.status = "resolved" /\ w.queued => w.settleAt - w.callAt <= MaxWaitMs
           /\ w.status = "rejected" => w.queued /\ w.settleAt - w.callAt >= MaxWaitMs
           /\ Cardinality(EntriesOf(c)) = IF w.status = "pending" THEN 1 ELSE 0

SettledOnce ==
    /\ \A c \in Callers :
          /\ WaiterOf(c).status = "rejected" =>
                 WaiterThen(c) = WaiterOf(c) \/ WaiterThen(c).callAt > WaiterOf(c).callAt
          /\ WaiterOf(c).status = "resolved" => WaiterThen(c).status # "rejected"
    /\ Draining /\ Len(WaitQueueThen) < Len(WaitQueue) =>
          /\ TokensTaken = Cardinality(GrantedNow)
          /\ Len(WaitQueue) - Len(WaitQueueThen) = Cardinality(GrantedNow) + Cardinality(RejectedNow)

TimedOutWaiterRejected == []WaitersSettled /\ [][SettledOnce]_vars

\* The bucket's loop woke late: it rejected the head and gave the token to the next.
RejectedThenGranted ==
    /\ lver = "bucket"
    /\ \E c, d \in Callers :
          /\ breq[c].status = "rejected"
          /\ breq[d].status = "resolved" /\ breq[d].callAt > breq[c].callAt
          /\ breq[d].settleAt = breq[c].settleAt
          /\ tokens = 0

(***************************************************************************)
(* C16: the counter is reset to zero exactly when the time elapsed since   *)
(* the window's start has reached a window (elapsed >= W), and not         *)
(* otherwise; a reset advances the start by floor(elapsed / W) * W, so the *)
(* start is always the initial start plus whole windows and never later    *)
(* than the current time.                                                  *)
(***************************************************************************)
Elapsed == now - minuteStartTime
GrantsThen == win'.immediate + win'.drained

WindowStartOnBoundary ==
    /\ minuteStartTime % WindowMs = 0
    /\ minuteStartTime <= now

ResetOnBoundaryOnly ==
    limVars' # limVars =>
        IF Elapsed >= WindowMs
            THEN /\ minuteStartTime' = minuteStartTime + (Elapsed \div WindowMs) * WindowMs
                 /\ now - minuteStartTime' < WindowMs
                 /\ requestsThisMinute' = GrantsThen
                 /\ win'.calls <= 1
            ELSE /\ minuteStartTime' = minuteStartTime
                 /\ requestsThisMinute' >= requestsThisMinute

CounterResetOnWindowBoundary == []WindowStartOnBoundary /\ [][ResetOnBoundaryOnly]_vars

\* The first call came two and a half windows after the start: the window now
\* starts two whole windows later.
ResetSkippedWindows ==
    /\ now = 2 * WindowMs + 30000
    /\ minuteStartTime = 2 * WindowMs
    /\ requestsThisMinute = 1
    /\ \E c \in Callers :
          /\ req[c].status = "resolved" /\ req[c].callAt = now
          /\ \A d \in Callers \ {c} : req[d].status = "idle"

(***************************************************************************)
(* C17: when a running job finishes, whether its function resolved or      *)
(* threw, its slot is released exactly once: the processing counter is the *)
(* number of jobs admitted and not finished (the serial revision's flag is *)
(* set while its loop lives). The error stays in the scheduler, and another*)
(* admission attempt follows: a job is left in the queue only while all    *)
(* slots are taken or a loop of processQueue is waiting to take it.        *)
(***************************************************************************)
Active == {j \in Jobs : job[j].status \in {"admitted", "running"}}
ActiveThen == {j \in Jobs : job'[j].status \in {"admitted", "running"}}

SlotsHeld ==
    IF qver = "serial"
        THEN /\ processing \in BOOLEAN
             /\ processing <=> loops # {}
             /\ Cardinality(Active) <= 1
        ELSE processing = Cardinality(Active)

NoJobStranded ==
    Len(queue) > 0 =>
        IF qver = "serial"
            THEN processing /\ loops # {}
            ELSE processing >= maxConcurrent \/ \E lp \in loops : lp.pc = "delay"

ReleasedOnFinish ==
    \A j \in Jobs :
        job[j].status = "running" /\ job'[j].status \in {"completed", "failed"} =>
            /\ qver # "serial" =>
                   processing' = processing - 1 + Cardinality(ActiveThen \ Active)
            /\ Len(queue) > 0 =>
                   \/ Len(queue') < Len(queue)
                   \/ \E lp \in loops' : lp.pc = "delay"
                   \/ qver # "serial" /\ processing' >= maxConcurrent

SlotReleasedOnce == [](SlotsHeld /\ NoJobStranded) /\ [][ReleasedOnFinish]_vars

\* A job threw in the limited revision with one slot, and the next one runs.
StartedAfterFailure ==
    /\ qver = "limited" /\ maxConcurrent = 1
    /\ job[1].status = "failed"
    /\ job[2].status = "running"
    /\ processing = 1

(***************************************************************************)
(* C18: between two successive admissions at least minDelayMs elapses,     *)
(* also when a slot is free and the two jobs come from two enqueue calls   *)
(* made back to back. The clock starts at zero: two jobs admitted before   *)
(* minDelayMs has elapsed were admitted less than minDelayMs apart.        *)
(***************************************************************************)
Admitted == {j \in Jobs : job[j].status \notin {"new", "queued"}}

AdmissionsSpaced == Cardinality(Admitted) >= 2 => now >= MinDelayMs

(***************************************************************************)
(* C19: every enqueued job goes Queued -> Running -> {Completed, Failed}   *)
(* once: its function is started at most once per enqueue, never again     *)
(* after it failed or after the limiter refused it, and it is in the queue *)
(* only while it has not been admitted.                                    *)
(***************************************************************************)
InQueue(j) == \E i \in 1..Len(queue) : queue[i].job = j

WorkStartedOnce ==
    \A j \in Jobs :
        /\ job[j].runs <= 1
        /\ InQueue(j) <=> job[j].status = "queued"
        /\ job[j].status \in {"new", "queued", "admitted"} => job[j].runs = 0

(***************************************************************************)
(* C20: for every response job exactly one message reaches the user: the   *)
(* generated reply or, on failure or timeout, one apology; never a reply   *)
(* followed by an apology, never two apologies, and, the platform          *)
(* accepting what is sent, never no message at all.                        *)
(***************************************************************************)
JobOver == mres \in {"completed", "failed", "exited"}

OneMessagePerJob ==
    /\ Len(sent) <= 1
    /\ JobOver /\ failedSends = 0 => Len(sent) = 1

(***************************************************************************)
(* C21: a response job whose generation exceeded the 30 s budget has       *)
(* failed and holds nothing afterwards: once the job has ended with the    *)
(* timeout apology, its generation is no longer waiting for a rate-limit   *)
(* token or calling the provider, and its timer is no longer pending.      *)
(***************************************************************************)
TimedOut == mres = "completed" /\ sent = <<"timeoutApology">>

TimedOutJobHoldsNothing ==
    TimedOut =>
        /\ gen \notin {"waiting", "calling"}
        /\ timer \notin {"armed", "raced", "spent"}

EntriesFor(id) == {i \in 1..Len(out) : out[i].id = id}

EndsWithCurrentOnce ==
    (bver = "sorted" /\ bpc = "done" /\ cur # NoMessage /\ ~excludeCurrent) =>
        /\ Len(out) >= 1
        /\ out[Len(out)].id = cur.id
        /\ out[Len(out)].current
        /\ EntriesFor(cur.id) = {Len(out)}

\* The current message was the oldest entry of the cache: it is rendered last.
CachedCurrentMovedToEnd ==
    /\ bver = "sorted" /\ bpc = "done" /\ ~excludeCurrent
    /\ Len(ccache) = 3 /\ contextSize = MentionContextSize
    /\ cur = ccache[1]
    /\ ccache[1].ts < ccache[2].ts
    /\ Len(out) = 3
    /\ out[3].id = 1

(***************************************************************************)
(* C24: a reply target that was missing from the cache and was fetched     *)
(* successfully during context assembly is appended to the channel's       *)
(* cache: from then on it is found there, and no later entry replying to   *)
(* the same target causes another fetch.                                   *)
(***************************************************************************)
FetchedTargetCached ==
    \A k \in 1..Len(fetches) :
        fetches[k].ok =>
            /\ FindMessage(fetches[k].id)
            /\ \A l \in (k + 1)..Len(fetches) : fetches[l].id # fetches[k].id

(***************************************************************************)
(* C25: every invocation of the completion provider by the router, on      *)
(* every tier, is preceded by the acquisition of its own rate-limit token: *)
(* the provider calls started never outnumber the tokens granted.          *)
(***************************************************************************)
CallsStarted ==
    Cardinality({i \in 1..Len(calls) : calls[i].invoked}) + (IF rpc = "call" THEN 1 ELSE 0)

TokenBeforeEveryCall == CallsStarted <= tokensGranted

(***************************************************************************)
(* C26: when the wait for a rate-limit token fails with the limiter's      *)
(* timeout error the request is abandoned: the router surfaces the failure *)
(* and neither waits for another token nor calls the provider for a later  *)
(* tier of the same request.                                               *)
(***************************************************************************)
AbandonedOnTimeout ==
    \A i \in 1..Len(calls) :
        calls[i].kind = "timeout" =>
            /\ i = Len(calls)
            /\ rpc \in {"thrown", "done"}
            /\ rpc = "thrown" => thrown.kind = "timeout"

(***************************************************************************)
(* C27: for the scheduler's RequestRateLimiter with limit K, at most K     *)
(* operations are started through executeRequest within one window and the *)
(* counter never exceeds K, whatever the interleaving of the jobs in       *)
(* flight.                                                                 *)
(***************************************************************************)
InExecuteRequest == {lp \in loops : lp.pc = "main"}

CounterWithinLimit == qlim.count <= QueueLimit

\* The operations of the current window: those counted and those still running.
StartedWithinLimit ==
    /\ CounterWithinLimit
    /\ now - qlim.start < WindowMs =>
           qlim.count + Cardinality(InExecuteRequest) <= QueueLimit

(***************************************************************************)
(* C28: the model tiers tried for a job's generation call depend only on   *)
(* that job's own fallback mode: while a job runs, the tier list that      *)
(* executeWithFallback builds from the environment flags is the list of    *)
(* the mode the scheduler started this job in, whatever the other jobs in  *)
(* flight do.                                                              *)
(***************************************************************************)
Generating == {lp \in loops : lp.pc \in {"main", "fallback", "instant"}}

OwnMode(lp) ==
    CASE lp.pc = "main" -> NoFlags
      [] lp.pc = "fallback" -> [fallback |-> TRUE, instant |-> FALSE]
      [] OTHER -> [fallback |-> TRUE, instant |-> TRUE]

TiersOfOwnModeOnly ==
    \A lp \in Generating :
        \A v \in {"limited", "envFlag"} : ModelsOf(v, env) = ModelsOf(v, OwnMode(lp))

(***************************************************************************)
(* C29: every inbound message of another participant that handleMessage    *)
(* has finished with was appended to its channel's cache, and a response   *)
(* job was enqueued for it if and only if it mentions the assistant or     *)
(* replies to one of the assistant's messages.                             *)
(***************************************************************************)
Handled == {m \in Inbound : hpc[m] = "done"}

AppendedToCache(m) == m \in Range(appended[Chan])

AddressesAssistant(m) == hmsg[m].mentioned \/ hmsg[m].ref = "bot"

CachedThenEnqueuedIfAddressed ==
    \A m \in Handled :
        /\ AppendedToCache(m)
        /\ m \in enqueued <=> AddressesAssistant(m)

(***************************************************************************)
(* C30: message ids are unique within a channel: no channel cache holds    *)
(* two entries with the same id.                                           *)
(***************************************************************************)
UniqueIds ==
    \A c \in DOMAIN caches :
        \A i, j \in 1..Len(caches[c]) : i # j => caches[c][i] # caches[c][j]

(***************************************************************************)
(* C31: a failing save or load of a channel cache is swallowed: addMessage *)
(* and loadCache complete, the appended message is in the in-memory cache, *)
(* the in-memory state is otherwise unchanged by the failure, and the      *)
(* handler goes on.                                                        *)
(***************************************************************************)
\* A step in which saveChannelCache failed inside addMessage.
SaveFailed == saveFailures' = saveFailures + 1

FailedSaveKeepsMessage ==
    SaveFailed =>
        /\ store' = store
        /\ appended'[Chan] # appended[Chan]
        /\ caches'[Chan] = Evict(Append(GetCache(Chan), appended'[Chan][Len(appended'[Chan])]), maxSize)

FailedLoadKeepsCache ==
    \A m \in Inbound :
        LoadCacheSettles(m, FALSE) =>
            /\ caches'[Chan] = GetCache(Chan)
            /\ hpc'[m] # "load"

PersistenceFailureSwallowed == [][FailedSaveKeepsMessage /\ FailedLoadKeepsCache]_vars

(***************************************************************************)
(* C32: the cache never blocks a caller: addMessage inserts and evicts in  *)
(* one synchronous step, and its completion as seen by the caller does not *)
(* wait for the persistence save, so no addMessage call is ever pending on *)
(* saveChannelCache.                                                       *)
(***************************************************************************)
AppendCalls == FlushCalls \ {SyncCall}

NoAppendAwaitsSave == \A k \in AppendCalls : fcall[k] \in {"none", "done"}

(***************************************************************************)
(* C33: a flush that runs concurrently with appends persists a             *)
(* point-in-time snapshot, exactly the messages the channel held at one    *)
(* instant of the flush, and a flush that follows another with no append   *)
(* in between leaves the stored rows identical.                            *)
(***************************************************************************)
FlushIsSnapshot ==
    /\ flushed.rows \in flushed.snaps
    /\ flushed.repeat => flushed.rows = flushed.before

(***************************************************************************)
(* C34: the content and the order of a channel's cached sequence change    *)
(* only through the cache's own operations (append with eviction, clear,   *)
(* hydrate): neither context building nor cache initialisation reorders,   *)
(* removes or edits the entries of the sequence obtained from getCache.    *)
(***************************************************************************)
OwnCacheOperation ==
    \/ ccache' = ccache
    \/ ccache' = << >>
    \/ /\ ccache' # << >>
       /\ ccache' = Evict(Append(ccache, ccache'[Len(ccache')]), maxSize)

CacheChangedByOwnOperations == [][OwnCacheOperation]_vars

(***************************************************************************)
(* C35: buildContext called with excludeCurrentMessage = true returns the  *)
(* previous messages without the current message, even when the current    *)
(* message is already in the cache.                                        *)
(***************************************************************************)
PreviousContextOmitsCurrent ==
    (bver = "sorted" /\ bpc = "done" /\ excludeCurrent /\ cur # NoMessage) =>
        EntriesFor(cur.id) = {}

(***************************************************************************)
(* C36: a message appended to a channel stays in the channel's in-memory   *)
(* cache until FIFO overflow evicts it or the channel is cleared: no       *)
(* interleaving of a pending loadCache, a cache initialisation or a save   *)
(* with appends makes an appended message disappear.                       *)
(***************************************************************************)
\* The step is an append that finds the cache full: its first entry is evicted.
EvictsFirst == Len(GetCache(Chan)) = maxSize /\ appended'[Chan] # appended[Chan]

AppendedStays ==
    \A i \in 1..Len(GetCache(Chan)) :
        caches[Chan][i] \in Range(appended[Chan]) =>
            \/ Chan \in DOMAIN caches' /\ caches[Chan][i] \in Range(caches'[Chan])
            \/ i = 1 /\ EvictsFirst

AppendedMessagesStay == [][AppendedStays]_vars

(***************************************************************************)
(* C37: for every rendered entry that replies to a target which is         *)
(* resolved, the quoted text is the content of the message whose id is the *)
(* entry's referencedMessage, never the entry's own content nor that of a  *)
(* message with another id.                                                *)
(***************************************************************************)
QuotesItsTarget ==
    \A i \in 1..Len(out) :
        out[i].kind = "quote" => out[i].quoted = recent[i].ref

(***************************************************************************)
(* C38: every enqueued job is eventually started and reaches Completed or  *)
(* Failed, provided every job function terminates: no job waits in the     *)
(* queue with nothing left that will pick it up.                           *)
(***************************************************************************)
EveryJobFinishes ==
    \A j \in Jobs :
        (job[j].status = "queued") ~> (job[j].status \in {"completed", "failed"} /\ job[j].runs >= 1)

\* A job overtaken in the queue by a later one of higher priority has completed.
OvertakenJobCompleted ==
    /\ MaxJobs >= 3
    /\ job[2].priority < job[3].priority
    /\ Len(ran) >= 3 /\ SubSeq(ran, 1, 3) = <<1, 3, 2>>
    /\ job[2].status = "completed"

(***************************************************************************)
(* C39: every caller queued in the limiter is eventually resolved or       *)
(* rejected, provided time advances: a draining loop sleeps on its timer   *)
(* exactly while the waiter queue is non-empty, and a caller queued while  *)
(* the loop is active starts no second loop and settles nobody.            *)
(***************************************************************************)
LoopWhileWaiting ==
    /\ Len(WaitQueue) > 0 <=> Draining
    /\ Draining <=> LoopTimer # NoTimer

OneLoop ==
    Draining /\ Len(WaitQueueThen) > Len(WaitQueue) =>
        /\ LoopTimer' = LoopTimer
        /\ GrantedNow = {} /\ RejectedNow = {}
        /\ Len(WaitQueueThen) = Len(WaitQueue) + 1

====
